---- MODULE Spec2Model ----
(***************************************************************************)
(* Model of the pto3-go observation store: the entity model of model.go    *)
(* (Condition, Path, ObservationSet, Observation and their insert          *)
(* protocol against a go-pg database) and the ConditionCache.              *)
(*                                                                         *)
(* Strings are sequences of one-character strings, so that                 *)
(* strings.HasPrefix / strings.HasSuffix are computed, not assumed.        *)
(* A database handle is a record of tables; every database call may fail.  *)
(***************************************************************************)
EXTENDS Integers, Sequences, FiniteSets, TLC

\* ------------------------------------------------------------------ bounds

\* Largest number of names in a decoded "_conditions" array.
MaxConds == 1
\* Largest number of observation_sets rows.
MaxSetRows == 1
\* Largest number of observations rows.
MaxObs == 1
\* Largest number of calls one concurrent caller makes.
MaxCalls == 2

\* ------------------------------------------------------------ input values

\* Condition names "h.g", "h.p" and "f.g" (think http.get, http.post, ftp.get).
CondNames == { <<"h", ".", "g">>, <<"h", ".", "p">>, <<"f", ".", "g">> }

\* Arguments of ConditionsByName: the names, a name no condition has, and
\* the wildcards "h.*", "f.*" and "n.*".
LookupNames ==
    CondNames \cup { <<"n">>, <<"h", ".", "*">>, <<"f", ".", "*">>, <<"n", ".", "*">> }

\* The condition names that sets declare and observation lines carry.
SetCondNames == { <<"h", ".", "g">>, <<"f", ".", "g">> }

\* Path strings.
PathStrings == { "p1" }

\* The set_id element an observation line carries, and its value element
\* (0 stands for a line without a 6th element, which leaves Value at 0).
WireSetIDs == { 7 }
WireValues == { 0, 5 }

\* The ObservationSet instances callers hold.
SetInstances == { "s1" }

\* The concurrent callers (one goroutine per request).
Procs == { "a", "b" }

\* ------------------------------------------------------------------- state

VARIABLES
    db,      \* the database: tables conditions, paths, observation_sets,
             \* observation_set_to_conditions, observations
    cache,   \* the ConditionCache: a map from condition name to id
    set,     \* the ObservationSet instances in memory
    last,    \* what the last call was, and what it returned
    proc     \* the concurrent callers: where each is in its call

vars == << db, cache, set, last, proc >>

\* -------------------------------------------------------- strings (Go strings)

HasPrefix(s, prefix) ==
    /\ Len(prefix) <= Len(s)
    /\ SubSeq(s, 1, Len(prefix)) = prefix

HasSuffix(s, suffix) ==
    /\ Len(suffix) <= Len(s)
    /\ SubSeq(s, Len(s) - Len(suffix) + 1, Len(s)) = suffix

\* ----------------------------------------------------------- database rows

\* A serial primary key: rows are never deleted, so the next id is the
\* number of rows plus one.
NextID(rows) == Cardinality(rows) + 1

\* go-pg's SelectOrInsert, run alone: select the row with the key; if there
\* is none, insert one. Returns the table and the id read or generated.
MutSelectOrInsertAlwaysInserts(rows, key) ==
    [ rows |-> rows \cup { [id |-> NextID(rows), key |-> key] },
      id   |-> NextID(rows) ]

SelectOrInsert(rows, key) ==
    IF \E r \in rows : r.key = key
    THEN [ rows |-> rows,
           id   |-> (CHOOSE r \in rows : r.key = key).id ]
    ELSE [ rows |-> rows \cup { [id |-> NextID(rows), key |-> key] },
           id   |-> NextID(rows) ]

\* Condition.InsertOnce: c is [ID, Name]; fails says the database call fails.
MutConditionInsertOnceKeepsID(d, c, fails) ==
    IF c.ID = 0
    THEN IF fails
         THEN [ db |-> d, c |-> c, err |-> "store" ]
         ELSE LET r == SelectOrInsert(d.conditions, c.Name)
              IN  [ db  |-> [d EXCEPT !.conditions = r.rows],
                    c   |-> c,
                    err |-> "nil" ]
    ELSE [ db |-> d, c |-> c, err |-> "nil" ]

ConditionInsertOnce(d, c, fails) ==
    IF c.ID = 0
    THEN IF fails
         THEN [ db |-> d, c |-> c, err |-> "store" ]
         ELSE LET r == SelectOrInsert(d.conditions, c.Name)
              IN  [ db  |-> [d EXCEPT !.conditions = r.rows],
                    c   |-> [c EXCEPT !.ID = r.id],
                    err |-> "nil" ]
    ELSE [ db |-> d, c |-> c, err |-> "nil" ]

\* Path.InsertOnce: p is [ID, String].
PathInsertOnce(d, p, fails) ==
    IF p.ID = 0
    THEN IF fails
         THEN [ db |-> d, p |-> p, err |-> "store" ]
         ELSE LET r == SelectOrInsert(d.paths, p.String)
              IN  [ db  |-> [d EXCEPT !.paths = r.rows],
                    p   |-> [p EXCEPT !.ID = r.id],
                    err |-> "nil" ]
    ELSE [ db |-> d, p |-> p, err |-> "nil" ]

\* --------------------------------------------------------- ConditionCache

\* A Go map read: the zero value when the key is absent.
CacheGet(ch, name) == IF name \in DOMAIN ch THEN ch[name] ELSE 0

\* A Go map write.
CachePut(ch, name, id) ==
    [ n \in DOMAIN ch \cup {name} |-> IF n = name THEN id ELSE ch[n] ]

\* ConditionCache.SetConditionID on the condition c points to.
MutSetConditionIDNoCache(ch, d, c, fails) ==
    IF c.Name \in DOMAIN ch
    THEN [ cache |-> ch, db |-> d, c |-> [c EXCEPT !.ID = ch[c.Name]], err |-> "nil" ]
    ELSE LET r == IF c.ID = 0
                  THEN ConditionInsertOnce(d, c, fails)
                  ELSE [ db |-> d, c |-> c, err |-> "nil" ]
         IN  [ cache |-> ch, db |-> r.db, c |-> r.c, err |-> r.err ]

SetConditionID(ch, d, c, fails) ==
    IF c.Name \in DOMAIN ch
    THEN \* cache hit
         [ cache |-> ch, db |-> d, c |-> [c EXCEPT !.ID = ch[c.Name]], err |-> "nil" ]
    ELSE LET r == IF c.ID = 0
                  THEN ConditionInsertOnce(d, c, fails)
                  ELSE [ db |-> d, c |-> c, err |-> "nil" ]
         IN  IF r.err # "nil"
             THEN [ cache |-> ch, db |-> r.db, c |-> r.c, err |-> r.err ]
             ELSE [ cache |-> CachePut(ch, c.Name, r.c.ID),
                    db |-> r.db, c |-> r.c, err |-> "nil" ]

\* The loop of ConditionCache.FillConditionIDsInSet from element i on.
\* "for _, c := range set.Conditions" copies each element into c, and
\* SetConditionID gets &c: the id it assigns goes to the copy (r.c below),
\* and conds is what set.Conditions holds afterwards.  failAt is the index of
\* the element whose database call fails (0: none).
RECURSIVE FillFrom(_, _, _, _, _)
FillFrom(ch, d, conds, i, failAt) ==
    IF i > Len(conds)
    THEN [ cache |-> ch, db |-> d, conds |-> conds, err |-> "nil" ]
    ELSE LET c == conds[i]
             r == SetConditionID(ch, d, c, i = failAt)
         IN  IF r.err # "nil"
             THEN [ cache |-> r.cache, db |-> r.db, conds |-> conds, err |-> r.err ]
             ELSE FillFrom(r.cache, r.db, conds, i + 1, failAt)

FillConditionIDsInSet(ch, d, s, failAt) ==
    LET r == FillFrom(ch, d, s.Conditions, 1, failAt)
    IN  [ cache |-> r.cache, db |-> r.db,
          set |-> [s EXCEPT !.Conditions = r.conds], err |-> r.err ]

\* ConditionCache.Reload: every row of conditions is written into the map.
MutReloadReplaces(ch, d, fails) ==
    IF fails
    THEN [ cache |-> ch, err |-> "store" ]
    ELSE [ cache |->
             [ n \in { r.key : r \in d.conditions } |->
                 (CHOOSE r \in d.conditions : r.key = n).id ],
           err |-> "nil" ]

MutReloadDoesNothing(ch, d, fails) ==
    [ cache |-> ch, err |-> IF fails THEN "store" ELSE "nil" ]

Reload(ch, d, fails) ==
    IF fails
    THEN [ cache |-> ch, err |-> "store" ]
    ELSE [ cache |->
             [ n \in DOMAIN ch \cup { r.key : r \in d.conditions } |->
                 IF \E r \in d.conditions : r.key = n
                 THEN (CHOOSE r \in d.conditions : r.key = n).id
                 ELSE ch[n] ],
           err |-> "nil" ]

\* The test "cache[conditionName] == 0" of the exact lookup.
MutExactMissAlways(ch, name) == TRUE

ExactMiss(ch, name) == CacheGet(ch, name) = 0

\* ConditionCache.ConditionsByName. matches is the set of conditions the
\* returned slice holds; reloads counts the calls of Reload.
MutConditionsByNameNoReload(ch, d, name, fails) ==
    IF HasSuffix(name, <<".", "*">>)
    THEN LET r == Reload(ch, d, fails)
         IN  IF r.err # "nil"
             THEN [ cache |-> r.cache, matches |-> {}, err |-> r.err, reloads |-> 1 ]
             ELSE [ cache |-> r.cache,
                    matches |->
                      { [Name |-> n, ID |-> r.cache[n]] :
                          n \in { m \in DOMAIN r.cache :
                                    HasPrefix(m, SubSeq(name, 1, Len(name) - 1)) } },
                    err |-> "nil", reloads |-> 1 ]
    ELSE IF CacheGet(ch, name) = 0
         THEN [ cache |-> ch, matches |-> {}, err |-> "unknown", reloads |-> 1 ]
         ELSE [ cache |-> ch,
                matches |-> { [Name |-> name, ID |-> CacheGet(ch, name)] },
                err |-> "nil", reloads |-> 0 ]

ConditionsByName(ch, d, name, fails) ==
    IF HasSuffix(name, <<".", "*">>)
    THEN LET r == Reload(ch, d, fails)
         IN  IF r.err # "nil"
             THEN [ cache |-> r.cache, matches |-> {}, err |-> r.err, reloads |-> 1 ]
             ELSE [ cache |-> r.cache,
                    matches |->
                      { [Name |-> n, ID |-> r.cache[n]] :
                          n \in { m \in DOMAIN r.cache :
                                    HasPrefix(m, SubSeq(name, 1, Len(name) - 1)) } },
                    err |-> "nil", reloads |-> 1 ]
    ELSE LET miss == ExactMiss(ch, name)
             r == IF miss THEN Reload(ch, d, fails) ELSE [ cache |-> ch, err |-> "nil" ]
             n == IF miss THEN 1 ELSE 0
         IN  IF r.err # "nil"
             THEN [ cache |-> r.cache, matches |-> {}, err |-> r.err, reloads |-> n ]
             ELSE IF CacheGet(r.cache, name) = 0
             THEN [ cache |-> r.cache, matches |-> {}, err |-> "unknown", reloads |-> n ]
             ELSE [ cache |-> r.cache,
                    matches |-> { [Name |-> name, ID |-> CacheGet(r.cache, name)] },
                    err |-> "nil", reloads |-> n ]

\* The orders in which a range over a Go map can visit the entries S.
Orderings(S) ==
    { f \in [1..Cardinality(S) -> S] : \A i, j \in 1..Cardinality(S) : f[i] = f[j] => i = j }

\* ------------------------------------------------------------- JSON values
\* What encoding/json gives UnmarshalJSON in an interface{} and takes from
\* MarshalJSON: null, a string, a number, or an array of such values.

JNull == [ t |-> "null", s |-> <<>>, n |-> 0, a |-> <<>> ]

JStr(s) == [ t |-> "string", s |-> s, n |-> 0, a |-> <<>> ]

JNum(n) == [ t |-> "number", s |-> <<>>, n |-> n, a |-> <<>> ]

JArr(a) == [ t |-> "array", s |-> <<>>, n |-> 0, a |-> a ]

DigitChars == << "0", "1", "2", "3", "4", "5", "6", "7", "8", "9" >>

\* The decimal text of a natural number.
RECURSIVE Digits(_)
Digits(n) ==
    IF n < 10 THEN << DigitChars[n + 1] >>
    ELSE Digits(n \div 10) \o << DigitChars[(n % 10) + 1] >>

\* The decimal text of an integer (what %v prints for a whole number).
Itoa(n) == IF n < 0 THEN << "-" >> \o Digits(0 - n) ELSE Digits(n)

DigitValue(ch) == (CHOOSE i \in 1..10 : DigitChars[i] = ch) - 1

IsDigit(ch) == \E i \in 1..10 : DigitChars[i] = ch

RECURSIVE DigitsValue(_, _)
DigitsValue(s, acc) ==
    IF s = << >> THEN acc
    ELSE DigitsValue(Tail(s), acc * 10 + DigitValue(Head(s)))

\* strconv.Atoi: the number, or 0 and an error.
Atoi(s) ==
    LET body == IF s # << >> /\ Head(s) \in {"-", "+"} THEN Tail(s) ELSE s
    IN  IF body = << >> \/ \E i \in 1..Len(body) : ~IsDigit(body[i])
        THEN [ n |-> 0, err |-> "syntax" ]
        ELSE [ n |-> IF Head(s) = "-" THEN 0 - DigitsValue(body, 0)
                                     ELSE DigitsValue(body, 0),
               err |-> "nil" ]

\* AsString: the text of a JSON value: a string is its own text and a number
\* its decimal text. (The text of null and of an array is not used here.)
AsString(v) ==
    IF v.t = "string" THEN v.s
    ELSE IF v.t = "number" THEN Itoa(v.n)
    ELSE << >>

\* AsStringArray: the strings of an array of strings, and ok; not ok for
\* anything else.
AsStringArray(v) ==
    IF v.t = "array" /\ \A i \in 1..Len(v.a) : v.a[i].t = "string"
    THEN [ arr |-> [ i \in 1..Len(v.a) |-> v.a[i].s ], ok |-> TRUE ]
    ELSE [ arr |-> << >>, ok |-> FALSE ]

\* The keys of the JSON object of an observation set.
KeySources == << "_", "s", "o", "u", "r", "c", "e", "s" >>

KeyAnalyzer == << "_", "a", "n", "a", "l", "y", "z", "e", "r" >>

KeyConditions == << "_", "c", "o", "n", "d", "i", "t", "i", "o", "n", "s" >>

KeyLink == << "_", "_", "l", "i", "n", "k" >>

KeyData == << "_", "_", "d", "a", "t", "a" >>

KeyObsCount == << "_", "_", "o", "b", "s", "_", "c", "o", "u", "n", "t" >>

\* --------------------------------------------------------- ObservationSet

\* ObservationSet.MarshalJSON: the object json.Marshal is given. The
\* metadata entries are written last, over whatever the key held.
MutSetMarshalJSONNoMetadata(st) ==
    LET keys == {KeySources, KeyAnalyzer}
                  \cup (IF st.link # << >> THEN {KeyLink} ELSE {})
                  \cup (IF st.datalink # << >> THEN {KeyData} ELSE {})
                  \cup (IF st.count # 0 THEN {KeyObsCount} ELSE {})
                  \cup (IF Len(st.Conditions) > 0 THEN {KeyConditions} ELSE {})
    IN  [ k \in keys |->
            IF k = KeySources
            THEN IF st.nilSources THEN JNull
                 ELSE JArr([ i \in 1..Len(st.Sources) |-> JStr(st.Sources[i]) ])
            ELSE IF k = KeyAnalyzer THEN JStr(st.Analyzer)
            ELSE IF k = KeyLink THEN JStr(st.link)
            ELSE IF k = KeyData THEN JStr(st.datalink)
            ELSE IF k = KeyObsCount THEN JNum(st.count)
            ELSE JArr([ i \in 1..Len(st.Conditions) |-> JStr(st.Conditions[i].Name) ]) ]

SetMarshalJSON(st) ==
    LET keys == {KeySources, KeyAnalyzer}
                  \cup (IF st.link # << >> THEN {KeyLink} ELSE {})
                  \cup (IF st.datalink # << >> THEN {KeyData} ELSE {})
                  \cup (IF st.count # 0 THEN {KeyObsCount} ELSE {})
                  \cup (IF Len(st.Conditions) > 0 THEN {KeyConditions} ELSE {})
                  \cup DOMAIN st.Metadata
    IN  [ k \in keys |->
            IF k \in DOMAIN st.Metadata THEN JStr(st.Metadata[k])
            ELSE IF k = KeySources
            THEN IF st.nilSources THEN JNull
                 ELSE JArr([ i \in 1..Len(st.Sources) |-> JStr(st.Sources[i]) ])
            ELSE IF k = KeyAnalyzer THEN JStr(st.Analyzer)
            ELSE IF k = KeyLink THEN JStr(st.link)
            ELSE IF k = KeyData THEN JStr(st.datalink)
            ELSE IF k = KeyObsCount THEN JNum(st.count)
            ELSE JArr([ i \in 1..Len(st.Conditions) |-> JStr(st.Conditions[i].Name) ]) ]

\* The statement "set.ID = 0" of UnmarshalJSON.
MutKeepID(id) == id

ResetID(id) == 0

\* The test of the keys UnmarshalJSON leaves out of the metadata.
MutIgnoresNoKey(k) == FALSE

Ignored(k) == HasPrefix(k, << "_", "_" >>)

\* The loop of ObservationSet.UnmarshalJSON over the keys of jmap, in the
\* order the range over the map visits them, from the i-th on.
RECURSIVE UnmarshalKeys(_, _, _, _)
UnmarshalKeys(st, jmap, order, i) ==
    IF i > Len(order)
    THEN [ set |-> st, err |-> "nil" ]
    ELSE LET k == order[i]
             v == jmap[k]
         IN  IF k = KeySources
             THEN LET r == AsStringArray(v)
                      st1 == [st EXCEPT !.Sources = r.arr, !.nilSources = ~r.ok]
                  IN  IF ~r.ok
                      THEN [ set |-> st1, err |-> "_sources not a string array" ]
                      ELSE UnmarshalKeys(st1, jmap, order, i + 1)
             ELSE IF k = KeyAnalyzer
             THEN UnmarshalKeys([st EXCEPT !.Analyzer = AsString(v)], jmap, order, i + 1)
             ELSE IF k = KeyConditions
             THEN LET r == AsStringArray(v)
                  IN  IF ~r.ok
                      THEN [ set |-> st, err |-> "_conditions not a string array" ]
                      ELSE UnmarshalKeys(
                             [st EXCEPT
                                !.Conditions = [ j \in 1..Len(r.arr) |->
                                                   [ID |-> 0, Name |-> r.arr[j]] ],
                                !.nilConditions = FALSE],
                             jmap, order, i + 1)
             ELSE IF Ignored(k)
             THEN UnmarshalKeys(st, jmap, order, i + 1)
             ELSE UnmarshalKeys(
                    [st EXCEPT !.Metadata =
                       [ m \in DOMAIN st.Metadata \cup {k} |->
                           IF m = k THEN AsString(v) ELSE st.Metadata[m] ]],
                    jmap, order, i + 1)

\* ObservationSet.UnmarshalJSON into the instance st. b is the input: json
\* says whether it parses as a JSON object, obj is the object.
SetUnmarshalJSON(st, b, order) ==
    LET st0 == [st EXCEPT !.Metadata = << >>]
    IN  IF ~b.json
        THEN [ set |-> st0, err |-> "json" ]
        ELSE LET r == UnmarshalKeys([st0 EXCEPT !.ID = ResetID(st.ID)], b.obj, order, 1)
             IN  IF r.err # "nil" THEN r
                 ELSE IF r.set.nilSources
                 THEN [ set |-> r.set, err |-> "ObservationSet missing _sources" ]
                 ELSE IF r.set.Analyzer = << >>
                 THEN [ set |-> r.set, err |-> "ObservationSet missing _analyzer" ]
                 ELSE IF r.set.nilConditions
                 THEN [ set |-> r.set, err |-> "ObservationSet missing _conditions" ]
                 ELSE r

\* What UnmarshalJSON can do with the input b: the range over the map
\* visits the keys in any order.
DecodeOutcomes(st, b) ==
    { SetUnmarshalJSON(st, b, order) : order \in Orderings(DOMAIN b.obj) }

\* fmt.Sprintf("%016x", setid), for the ids below 16.
HexChars == DigitChars \o << "a", "b", "c", "d", "e", "f" >>

Hex16(n) == [ i \in 1..15 |-> "0" ] \o << HexChars[n + 1] >>

\* LinkForSetID, against the base URL "/".
LinkForSetID(setid) == << "/", "o", "b", "s", "/" >> \o Hex16(setid)

\* ObservationSet.LinkVia.
LinkVia(st) ==
    [st EXCEPT !.link = LinkForSetID(st.ID),
               !.datalink = LinkForSetID(st.ID) \o << "/", "d", "a", "t", "a" >>]

\* The test "set.count == 0" of CountObservations.
NotCounted(n) == n = 0

\* ObservationSet.CountObservations: the set with its count, which is the
\* value returned. A failed query counts 0, and its error is dropped.
CountObservations(d, st, fails) ==
    IF NotCounted(st.count)
    THEN [st EXCEPT !.count =
            IF fails THEN 0
            ELSE Cardinality({ o \in d.observations : o.set_id = st.ID })]
    ELSE st

\* The guard "set.ID == 0" of ObservationSet.Insert.
MutUnassignedAlways(id) == TRUE

Unassigned(id) == id = 0

\* ObservationSet.Insert. failAt: 0 no database call fails; 1 the insert of
\* the set row fails; k + 1 the insert of the k-th association row fails.
\* A row of observation_sets is [id, set]: set names the instance whose
\* sources, analyzer and metadata the row holds.
Insert(d, s, inst, force, failAt) ==
    LET s1 == IF force THEN [s EXCEPT !.ID = 0] ELSE s
    IN  IF Unassigned(s1.ID)
        THEN IF failAt = 1
             THEN [ db |-> d, set |-> s1, err |-> "store" ]
             ELSE LET id == NextID(d.observation_sets)
                      n  == IF failAt = 0 THEN Len(s1.Conditions) ELSE failAt - 2
                      links == [ i \in 1..n |->
                                   [ observation_set_id |-> id,
                                     condition_id |-> s1.Conditions[i].ID ] ]
                  IN  [ db |-> [d EXCEPT
                                  !.observation_sets = @ \cup { [id |-> id, set |-> inst] },
                                  !.observation_set_to_conditions = @ \o links],
                        set |-> [s1 EXCEPT !.ID = id],
                        err |-> IF failAt = 0 THEN "nil" ELSE "store" ]
        ELSE [ db |-> d, set |-> s1, err |-> "nil" ]

\* ------------------------------------------------------------ Observation

\* The test "set.conditionDeclared[obs.ConditionID]".
MutDeclaredAlways(declared, id) == TRUE

Declared(declared, id) == id \in declared.ids

\* The test "set.conditionDeclared == nil".
MutNotBuiltAlways(declared) == TRUE

NotBuilt(declared) == declared.nil

\* Observation.InsertInSet. obs is a decoded observation: SetID from the
\* line, Path and Condition with id 0, Value. fail is [at, k]: which
\* database call fails ("none", "path", "cond", "set" with Insert's failAt
\* in k, or "obs").
MutInsertInSetChecksLate(d, s, inst, obs, fail) ==
    LET s1 == IF NotBuilt(s.conditionDeclared)
              THEN [s EXCEPT !.conditionDeclared =
                       [ nil |-> FALSE,
                         ids |-> { s.Conditions[i].ID : i \in 1..Len(s.Conditions) } ]]
              ELSE s
        rp == PathInsertOnce(d, obs.Path, fail.at = "path")
        rc == ConditionInsertOnce(rp.db, obs.Condition, fail.at = "cond")
        rs == Insert(rc.db, s1, inst, FALSE, IF fail.at = "set" THEN fail.k ELSE 0)
        row == [ id |-> NextID(rs.db.observations),
                 set_id |-> rs.set.ID,
                 path_id |-> rp.p.ID,
                 condition_id |-> rc.c.ID,
                 value |-> obs.Value ]
    IN  IF rp.err # "nil"
        THEN [ db |-> rp.db, set |-> s1, err |-> rp.err ]
        ELSE IF rc.err # "nil"
        THEN [ db |-> rc.db, set |-> s1, err |-> rc.err ]
        ELSE IF rs.err # "nil"
        THEN [ db |-> rs.db, set |-> rs.set, err |-> rs.err ]
        ELSE IF ~Declared(s1.conditionDeclared, rc.c.ID)
        THEN [ db |-> rs.db, set |-> rs.set, err |-> "undeclared" ]
        ELSE IF fail.at = "obs"
        THEN [ db |-> rs.db, set |-> rs.set, err |-> "store" ]
        ELSE [ db |-> [rs.db EXCEPT !.observations = @ \cup {row}],
               set |-> rs.set, err |-> "nil" ]

InsertInSet(d, s, inst, obs, fail) ==
    LET s1 == IF NotBuilt(s.conditionDeclared)
              THEN [s EXCEPT !.conditionDeclared =
                       [ nil |-> FALSE,
                         ids |-> { s.Conditions[i].ID : i \in 1..Len(s.Conditions) } ]]
              ELSE s
        rp == PathInsertOnce(d, obs.Path, fail.at = "path")
        rc == ConditionInsertOnce(rp.db, obs.Condition, fail.at = "cond")
        rs == Insert(rc.db, s1, inst, FALSE, IF fail.at = "set" THEN fail.k ELSE 0)
        row == [ id |-> NextID(rs.db.observations),
                 set_id |-> rs.set.ID,
                 path_id |-> rp.p.ID,
                 condition_id |-> rc.c.ID,
                 value |-> obs.Value ]
    IN  IF rp.err # "nil"
        THEN [ db |-> rp.db, set |-> s1, err |-> rp.err ]
        ELSE IF rc.err # "nil"
        THEN [ db |-> rc.db, set |-> s1, err |-> rc.err ]
        ELSE IF ~Declared(s1.conditionDeclared, rc.c.ID)
        THEN [ db |-> rc.db, set |-> s1, err |-> "undeclared" ]
        ELSE IF rs.err # "nil"
        THEN [ db |-> rs.db, set |-> rs.set, err |-> rs.err ]
        ELSE IF fail.at = "obs"
        THEN [ db |-> rs.db, set |-> rs.set, err |-> "store" ]
        ELSE [ db |-> [rs.db EXCEPT !.observations = @ \cup {row}],
               set |-> rs.set, err |-> "nil" ]

\* The kind of the error InsertInSet returns, as far as a caller can tell
\* it from the value: the undeclared-condition error is made by fmt.Errorf
\* and the errors of the database calls are returned as they come; none is
\* a PTOError, so none carries a status.
InsertInSetErrorKind(err) == IF err = "nil" THEN "nil" ELSE "error"

\* A time.Time: seconds and nanoseconds. The text of a timestamp stands in
\* for RFC 3339: "t", a digit of seconds and, when there is a fraction, "."
\* and a digit of it (think 2020-01-01T00:00:0s.fZ).

\* time.Time.Format(time.RFC3339): the layout has no fraction of a second.
FormatRFC3339(tm) == << "t", DigitChars[tm.sec + 1] >>

\* time.Parse(time.RFC3339, s): a fraction of a second in s is accepted
\* and kept.
ParseRFC3339(s) ==
    IF Len(s) = 2 /\ s[1] = "t" /\ IsDigit(s[2])
    THEN [ tm |-> [sec |-> DigitValue(s[2]), nsec |-> 0], err |-> "nil" ]
    ELSE IF Len(s) = 4 /\ s[1] = "t" /\ IsDigit(s[2]) /\ s[3] = "." /\ IsDigit(s[4])
    THEN [ tm |-> [sec |-> DigitValue(s[2]), nsec |-> DigitValue(s[4])], err |-> "nil" ]
    ELSE [ tm |-> [sec |-> 0, nsec |-> 0], err |-> "parse" ]

\* The zero value of Observation.
ZeroObservation ==
    [ ID |-> 0, SetID |-> 0,
      Start |-> [sec |-> 0, nsec |-> 0], End |-> [sec |-> 0, nsec |-> 0],
      PathID |-> 0, Path |-> [ID |-> 0, String |-> << >>],
      ConditionID |-> 0, Condition |-> [ID |-> 0, Name |-> << >>],
      Value |-> 0 ]

\* Observation.MarshalJSON: the slice json.Marshal is given.
ObsMarshalJSON(obs) ==
    << JNum(obs.SetID),
       JStr(FormatRFC3339(obs.Start)),
       JStr(FormatRFC3339(obs.End)),
       JStr(obs.Path.String),
       JStr(obs.Condition.Name) >>
      \o (IF obs.Value # 0 THEN << JNum(obs.Value) >> ELSE << >>)

\* Observation.UnmarshalJSON into obs. b is the input: json says whether it
\* parses as a JSON array, arr is the array.
ObsUnmarshalJSON(obs, b) ==
    IF ~b.json
    THEN [ obs |-> obs, err |-> "json" ]
    ELSE IF Len(b.arr) < 5
    THEN [ obs |-> obs, err |-> "Observation requires at least five elements" ]
    ELSE LET o1 == [obs EXCEPT !.ID = 0, !.SetID = Atoi(AsString(b.arr[1])).n]
             st == ParseRFC3339(AsString(b.arr[2]))
             o2 == [o1 EXCEPT !.Start = st.tm]
             en == ParseRFC3339(AsString(b.arr[3]))
             o3 == [o2 EXCEPT !.End = en.tm,
                              !.Path = [ID |-> 0, String |-> AsString(b.arr[4])],
                              !.Condition = [ID |-> 0, Name |-> AsString(b.arr[5])]]
             va == Atoi(AsString(b.arr[6]))
         IN  IF st.err # "nil" THEN [ obs |-> o2, err |-> st.err ]
             ELSE IF en.err # "nil"
             THEN [ obs |-> [o2 EXCEPT !.End = en.tm], err |-> en.err ]
             ELSE IF Len(b.arr) >= 6
             THEN [ obs |-> [o3 EXCEPT !.Value = va.n], err |-> va.err ]
             ELSE [ obs |-> o3, err |-> "nil" ]

\* ------------------------------------------------------------- the calls

\* Sequences over S of length 0..n.
RECURSIVE SeqsUpTo(_, _)
SeqsUpTo(S, n) ==
    IF n = 0 THEN { <<>> }
    ELSE SeqsUpTo(S, n - 1) \cup
         { Append(q, x) : q \in { r \in SeqsUpTo(S, n - 1) : Len(r) = n - 1 }, x \in S }

\* The number of rows a call added to each table.
Writes(d, e) ==
    [ conditions       |-> Cardinality(e.conditions) - Cardinality(d.conditions),
      paths            |-> Cardinality(e.paths) - Cardinality(d.paths),
      observation_sets |-> Cardinality(e.observation_sets) - Cardinality(d.observation_sets),
      links            |-> Len(e.observation_set_to_conditions)
                             - Len(d.observation_set_to_conditions),
      observations     |-> Cardinality(e.observations) - Cardinality(d.observations) ]

NoWrites == Writes([conditions |-> {}, paths |-> {}, observation_sets |-> {},
                    observation_set_to_conditions |-> <<>>, observations |-> {}],
                   [conditions |-> {}, paths |-> {}, observation_sets |-> {},
                    observation_set_to_conditions |-> <<>>, observations |-> {}])

\* The record of a call: its name and arguments (set: the instance, name: a
\* condition name or pattern, obs: the decoded observation), what it
\* returned (res, out, reloads), the rows it wrote, and what the id of the
\* instance (or of the caller's own condition) and the cache entry of name
\* were when it was called.
NoObs == [ SetID |-> 0, Path |-> "", Value |-> 0 ]

NoCall ==
    [ op |-> "none", set |-> "", name |-> <<>>, force |-> FALSE, obs |-> NoObs,
      res |-> "nil", out |-> <<>>, reloads |-> 0, writes |-> NoWrites,
      preID |-> 0, cached |-> FALSE ]

\* A caller that has made no call yet: pc is the statement it is at, c the
\* Condition or Path its call works on (key: Name or String), table the
\* table of its InsertOnce, rows the rows Reload has selected and not yet
\* written to the map, ret the statement to continue at, res the result.
Idle ==
    [ pc |-> "idle", op |-> "none", name |-> <<>>, table |-> "conditions",
      c |-> [ID |-> 0, key |-> <<>>], rows |-> {}, ret |-> "done", res |-> "nil",
      calls |-> 0 ]

\* The zero value of ObservationSet. A slice is its elements and whether it
\* is nil (nilSources, nilConditions); conditionDeclared is the map, or nil.
\* History, not fields of the struct: decoded (json.Unmarshal has filled the
\* instance), linked (LinkVia has been called on it) and counted (the value
\* the first CountObservations on it returned).

ZeroSet ==
    [ ID |-> 0,
      Sources |-> <<>>, nilSources |-> TRUE,
      Analyzer |-> <<>>,
      Conditions |-> <<>>, nilConditions |-> TRUE,
      conditionDeclared |-> [nil |-> TRUE, ids |-> {}],
      Metadata |-> <<>>,
      datalink |-> <<>>, link |-> <<>>, count |-> 0,
      decoded |-> FALSE, linked |-> FALSE, counted |-> <<>> ]

Init ==
    /\ db = [ conditions |-> {}, paths |-> {}, observation_sets |-> {},
              observation_set_to_conditions |-> <<>>, observations |-> {} ]
    /\ cache = << >>
    /\ set = [ s \in SetInstances |-> ZeroSet ]
    /\ last = NoCall
    /\ proc = [ p \in Procs |-> Idle ]

\* json.Unmarshal into a new ObservationSet of the object
\* {"_sources": ["a"], "_analyzer": "x", "_conditions": names}.
UnmarshalJSON(s, names) ==
    /\ ~set[s].decoded
    /\ LET obj == [ k \in {KeySources, KeyAnalyzer, KeyConditions} |->
                     IF k = KeySources THEN JArr(<< JStr(<< "a" >>) >>)
                     ELSE IF k = KeyAnalyzer THEN JStr(<< "x" >>)
                     ELSE JArr([ i \in 1..Len(names) |-> JStr(names[i]) ]) ]
       IN  \E r \in DecodeOutcomes(set[s], [ json |-> TRUE, obj |-> obj ]) :
             /\ r.err = "nil"
             /\ set' = [set EXCEPT ![s] = [r.set EXCEPT !.decoded = TRUE]]
    /\ last' = [NoCall EXCEPT !.op = "UnmarshalJSON", !.set = s, !.preID = set[s].ID]
    /\ UNCHANGED << db, cache >>

\* cache.FillConditionIDsInSet(db, &set[s])
CallFillConditionIDsInSet(s) ==
    /\ set[s].decoded
    /\ \E failAt \in 0..Len(set[s].Conditions) :
         LET r == FillConditionIDsInSet(cache, db, set[s], failAt)
         IN  /\ cache' = r.cache
             /\ db' = r.db
             /\ set' = [set EXCEPT ![s] = r.set]
             /\ last' = [NoCall EXCEPT !.op = "FillConditionIDsInSet", !.set = s,
                                       !.res = r.err, !.writes = Writes(db, r.db),
                                       !.preID = set[s].ID]

\* cache.SetConditionID(db, &set[s].Conditions[i])
CallSetConditionIDInSet(s, i) ==
    /\ set[s].decoded
    /\ i \in 1..Len(set[s].Conditions)
    /\ \E fails \in BOOLEAN :
         LET r == SetConditionID(cache, db, set[s].Conditions[i], fails)
         IN  /\ cache' = r.cache
             /\ db' = r.db
             /\ set' = [set EXCEPT ![s].Conditions[i] = r.c]
             /\ last' = [NoCall EXCEPT !.op = "SetConditionID", !.set = s,
                                       !.name = set[s].Conditions[i].Name,
                                       !.res = r.err, !.writes = Writes(db, r.db),
                                       !.preID = set[s].ID,
                                       !.cached = set[s].Conditions[i].Name \in DOMAIN cache]

\* cache.SetConditionID(db, &Condition{Name: name})
CallSetConditionID(name) ==
    \E fails \in BOOLEAN :
      LET r == SetConditionID(cache, db, [ID |-> 0, Name |-> name], fails)
      IN  /\ cache' = r.cache
          /\ db' = r.db
          /\ last' = [NoCall EXCEPT !.op = "SetConditionID", !.name = name,
                                    !.res = r.err, !.writes = Writes(db, r.db),
                                    !.cached = name \in DOMAIN cache]
          /\ UNCHANGED set

\* cache.Reload(db)
CallReload ==
    \E fails \in BOOLEAN :
      LET r == Reload(cache, db, fails)
      IN  /\ cache' = r.cache
          /\ last' = [NoCall EXCEPT !.op = "Reload", !.res = r.err, !.reloads = 1]
          /\ UNCHANGED << db, set >>

\* cache.ConditionsByName(db, name)
CallConditionsByName(name) ==
    \E fails \in BOOLEAN :
      LET r == ConditionsByName(cache, db, name, fails)
      IN  \E out \in Orderings(r.matches) :
            /\ cache' = r.cache
            /\ last' = [NoCall EXCEPT !.op = "ConditionsByName", !.name = name,
                                      !.res = r.err, !.out = out, !.reloads = r.reloads,
                                      !.cached = name \in DOMAIN cache]
            /\ UNCHANGED << db, set >>

\* (&Condition{Name: name}).InsertOnce(db)
CallConditionInsertOnce(name) ==
    \E fails \in BOOLEAN :
      LET r == ConditionInsertOnce(db, [ID |-> 0, Name |-> name], fails)
      IN  /\ db' = r.db
          /\ last' = [NoCall EXCEPT !.op = "Condition.InsertOnce", !.name = name,
                                    !.res = r.err, !.writes = Writes(db, r.db)]
          /\ UNCHANGED << cache, set >>

\* (&Path{String: str}).InsertOnce(db)
CallPathInsertOnce(str) ==
    \E fails \in BOOLEAN :
      LET r == PathInsertOnce(db, [ID |-> 0, String |-> str], fails)
      IN  /\ db' = r.db
          /\ last' = [NoCall EXCEPT !.op = "Path.InsertOnce",
                                    !.obs = [NoObs EXCEPT !.Path = str],
                                    !.res = r.err, !.writes = Writes(db, r.db)]
          /\ UNCHANGED << cache, set >>

\* set[s].Insert(db, force)
CallInsert(s, force) ==
    /\ set[s].decoded
    /\ (force \/ set[s].ID = 0) => Cardinality(db.observation_sets) < MaxSetRows
    /\ \E failAt \in 0..(Len(set[s].Conditions) + 1) :
         LET r == Insert(db, set[s], s, force, failAt)
         IN  /\ db' = r.db
             /\ set' = [set EXCEPT ![s] = r.set]
             /\ last' = [NoCall EXCEPT !.op = "Insert", !.set = s, !.force = force,
                                       !.res = r.err, !.writes = Writes(db, r.db),
                                       !.preID = set[s].ID]
             /\ UNCHANGED cache

\* The observations json.Unmarshal yields: Path and Condition with id 0.
DecodedObservations ==
    [ SetID : WireSetIDs,
      Path : [ID : {0}, String : PathStrings],
      Condition : [ID : {0}, Name : SetCondNames],
      Value : WireValues ]

\* obs.InsertInSet(db, &set[s])
CallInsertInSet(s, obs) ==
    /\ set[s].decoded
    /\ set[s].ID = 0 => Cardinality(db.observation_sets) < MaxSetRows
    /\ Cardinality(db.observations) < MaxObs
    /\ \E fail \in ([at : {"none", "path", "cond", "obs"}, k : {0}]
                      \cup [at : {"set"}, k : 1..(Len(set[s].Conditions) + 1)]) :
         LET r == InsertInSet(db, set[s], s, obs, fail)
         IN  /\ db' = r.db
             /\ set' = [set EXCEPT ![s] = r.set]
             /\ last' = [NoCall EXCEPT !.op = "InsertInSet", !.set = s,
                                       !.name = obs.Condition.Name,
                                       !.obs = [SetID |-> obs.SetID,
                                                Path |-> obs.Path.String,
                                                Value |-> obs.Value],
                                       !.res = r.err, !.writes = Writes(db, r.db),
                                       !.preID = set[s].ID]
             /\ UNCHANGED cache

\* The insert protocol: decoding a set, resolving its conditions, inserting
\* it and observations in it, one call after the other.
Next ==
    \/ \E s \in SetInstances, names \in SeqsUpTo(SetCondNames, MaxConds) :
         UnmarshalJSON(s, names) /\ UNCHANGED proc
    \/ \E s \in SetInstances : CallFillConditionIDsInSet(s) /\ UNCHANGED proc
    \/ \E s \in SetInstances, i \in 1..MaxConds :
         CallSetConditionIDInSet(s, i) /\ UNCHANGED proc
    \/ \E str \in PathStrings : CallPathInsertOnce(str) /\ UNCHANGED proc
    \/ \E s \in SetInstances, force \in BOOLEAN : CallInsert(s, force) /\ UNCHANGED proc
    \/ \E s \in SetInstances, obs \in DecodedObservations :
         CallInsertInSet(s, obs) /\ UNCHANGED proc

Spec == Init /\ [][Next]_vars

\* The condition cache and the conditions table, one call after the other.
NextCache ==
    \/ \E name \in CondNames : CallSetConditionID(name) /\ UNCHANGED proc
    \/ \E name \in CondNames : CallConditionInsertOnce(name) /\ UNCHANGED proc
    \/ CallReload /\ UNCHANGED proc
    \/ \E name \in LookupNames : CallConditionsByName(name) /\ UNCHANGED proc

SpecCache == Init /\ [][NextCache]_vars

\* The ids of the conditions callers pass to SetConditionID: 0 for a
\* condition that has only a name, or an id the condition already holds.
HeldIDs == { 0, 2 }

\* cache.SetConditionID(db, &c) on the caller's own condition c; out is the
\* condition after the call.
CallSetConditionIDOf(c) ==
    \E fails \in BOOLEAN :
      LET r == SetConditionID(cache, db, c, fails)
      IN  /\ cache' = r.cache
          /\ db' = r.db
          /\ last' = [NoCall EXCEPT !.op = "SetConditionID", !.name = c.Name,
                                    !.res = r.err, !.out = << r.c >>,
                                    !.writes = Writes(db, r.db), !.preID = c.ID,
                                    !.cached = c.Name \in DOMAIN cache]
          /\ UNCHANGED set

\* The cache beside callers that hold conditions of their own: a condition
\* with an id and a name that is not cached is cached as it is, so the cache
\* can hold names and ids the conditions table does not.
NextReload ==
    \/ \E c \in [ID : HeldIDs, Name : CondNames] :
         CallSetConditionIDOf(c) /\ UNCHANGED proc
    \/ \E name \in CondNames : CallConditionInsertOnce(name) /\ UNCHANGED proc
    \/ CallReload /\ UNCHANGED proc

SpecReload == Init /\ [][NextReload]_vars

\* ------------------------------------------------- the life of an instance

\* The object {"_sources": ["a"], "_analyzer": "x", "_conditions": ["f.g"]}.
WireBase ==
    [ k \in {KeySources, KeyAnalyzer, KeyConditions} |->
        IF k = KeySources THEN JArr(<< JStr(<< "a" >>) >>)
        ELSE IF k = KeyAnalyzer THEN JStr(<< "x" >>)
        ELSE JArr(<< JStr(<< "f", ".", "g" >>) >>) ]

\* obj with the value v under the key k, and obj without the key k.
With(obj, k, v) == [ m \in DOMAIN obj \cup {k} |-> IF m = k THEN v ELSE obj[m] ]

Without(obj, k) == [ m \in DOMAIN obj \ {k} |-> obj[m] ]

\* The inputs of ObservationSet.UnmarshalJSON: the object above; with
\* other conditions; with metadata keys (a string, a number); with "__"
\* keys; with an empty array, no key, a string or an array of numbers where
\* an array of strings is expected; with an empty analyzer or none; and
\* bytes that are not a JSON object.
WireObjects ==
    { WireBase,
      With(WireBase, KeyConditions,
           JArr(<< JStr(<< "h", ".", "g" >>), JStr(<< "f", ".", "g" >>) >>)),
      With(WireBase, << "m" >>, JStr(<< "v" >>)),
      With(WireBase, << "i", "d" >>, JNum(5)),
      With(WireBase, KeyLink, JStr(<< "z" >>)),
      With(With(WireBase, << "m" >>, JStr(<< "v" >>)), KeyObsCount, JNum(3)),
      With(WireBase, KeyConditions, JArr(<< >>)),
      With(WireBase, KeyConditions, JArr(<< JNum(5) >>)),
      Without(WireBase, KeyConditions),
      With(WireBase, KeySources, JArr(<< >>)),
      With(WireBase, KeySources, JStr(<< "a" >>)),
      Without(WireBase, KeySources),
      With(WireBase, KeyAnalyzer, JStr(<< >>)),
      Without(WireBase, KeyAnalyzer) }

WireSets ==
    [ json : {TRUE}, obj : WireObjects ] \cup { [ json |-> FALSE, obj |-> << >> ] }

\* The record of a call of the codec: the bytes it read or wrote (wire) and
\* the id the instance held when called (preID).
CodecCall(op, s, b, res) ==
    [ op |-> op, set |-> s, wire |-> b, preID |-> set[s].ID, res |-> res ]

\* json.Unmarshal(b, &set[s]), on a new instance or on one in use.
CallSetUnmarshalJSON(s, b) ==
    \E r \in DecodeOutcomes(set[s], b) :
      /\ set' = [set EXCEPT ![s] = [r.set EXCEPT !.decoded = (r.err = "nil")]]
      /\ last' = CodecCall("ObservationSet.UnmarshalJSON", s, b, r.err)
      /\ UNCHANGED << db, cache >>

\* json.Marshal(&set[s])
CallSetMarshalJSON(s) ==
    /\ last' = CodecCall("ObservationSet.MarshalJSON", s,
                         [ json |-> TRUE, obj |-> SetMarshalJSON(set[s]) ], "nil")
    /\ UNCHANGED << db, cache, set >>

\* set[s].LinkVia(baseurl)
CallLinkVia(s) ==
    /\ set' = [set EXCEPT ![s] = [LinkVia(set[s]) EXCEPT !.linked = TRUE]]
    /\ last' = CodecCall("LinkVia", s, [ json |-> FALSE, obj |-> << >> ], "nil")
    /\ UNCHANGED << db, cache >>

\* set[s].CountObservations(db)
CallCountObservations(s) ==
    \E fails \in BOOLEAN :
      LET r == CountObservations(db, set[s], fails)
      IN  /\ set' = [set EXCEPT ![s] =
                       [r EXCEPT !.counted = IF @ = << >> THEN << r.count >> ELSE @]]
          /\ last' = CodecCall("CountObservations", s,
                               [ json |-> FALSE, obj |-> << >> ], "nil")
          /\ UNCHANGED << db, cache >>

\* An instance that is decoded, resolved, inserted into and counted.
NextCount ==
    \/ \E s \in SetInstances, names \in SeqsUpTo(SetCondNames, MaxConds) :
         UnmarshalJSON(s, names) /\ UNCHANGED proc
    \/ \E s \in SetInstances, i \in 1..MaxConds :
         CallSetConditionIDInSet(s, i) /\ UNCHANGED proc
    \/ \E s \in SetInstances, obs \in DecodedObservations :
         CallInsertInSet(s, obs) /\ UNCHANGED proc
    \/ \E s \in SetInstances : CallCountObservations(s) /\ UNCHANGED proc

SpecCount == Init /\ [][NextCount]_vars

\* The ids and the counts of the instances the codec is given: a new
\* instance (0, 0), or one that holds the id of a row and has been counted.
HeldSetIDs == { 0, 1 }

HeldCounts == { 0, 2 }

\* The instances before the codec is used on them.
InitCodec ==
    /\ db = [ conditions |-> {}, paths |-> {}, observation_sets |-> {},
              observation_set_to_conditions |-> <<>>, observations |-> {} ]
    /\ cache = << >>
    /\ set \in [ SetInstances ->
                  { [ZeroSet EXCEPT !.ID = id, !.count = n] :
                      id \in HeldSetIDs, n \in HeldCounts } ]
    /\ last = NoCall
    /\ proc = [ p \in Procs |-> Idle ]

\* The codec of ObservationSet: an instance is decoded into (again and
\* again), its conditions are resolved, it is linked and encoded.
NextCodec ==
    \/ \E s \in SetInstances, b \in WireSets :
         CallSetUnmarshalJSON(s, b) /\ UNCHANGED proc
    \/ \E s \in SetInstances, i \in 1..MaxConds :
         CallSetConditionIDInSet(s, i) /\ UNCHANGED proc
    \/ \E s \in SetInstances : CallLinkVia(s) /\ UNCHANGED proc
    \/ \E s \in SetInstances : CallSetMarshalJSON(s) /\ UNCHANGED proc

SpecCodec == InitCodec /\ [][NextCodec]_vars

\* The lines of an observation file: a set id as a string or a number, a
\* start and an end with or without a fraction of a second, a path, a
\* condition name and no value, a value as a number or a string, or 0; a
\* line with a start or a value that does not parse; a line of four elements;
\* and bytes that are not a JSON array.
WireTimes == { << "t", "1" >>, << "t", "1", ".", "5" >>, << "x" >> }

WireLines ==
    { [ json |-> TRUE,
        arr |-> << sid, JStr(st), JStr(en), JStr(<< "p" >>), JStr(nm) >> \o va ] :
        sid \in { JStr(<< "7" >>), JNum(7), JStr(<< "x" >>) },
        st \in WireTimes,
        en \in { << "t", "2" >>, << "t", "2", ".", "5" >> },
        nm \in SetCondNames,
        va \in { << >>, << JNum(5) >>, << JStr(<< "5" >>) >>, << JNum(0) >>,
                 << JStr(<< "x" >>) >> } }
      \cup { [ json |-> TRUE,
               arr |-> << JStr(<< "7" >>), JStr(<< "t", "1" >>), JStr(<< "t", "2" >>),
                          JStr(<< "p" >>) >> ],
             [ json |-> FALSE, arr |-> << >> ] }

\* json.Unmarshal(b, &obs) into a new Observation.
CallObsUnmarshalJSON(b) ==
    LET r == ObsUnmarshalJSON(ZeroObservation, b)
    IN  /\ last' = [ op |-> "Observation.UnmarshalJSON", obs |-> r.obs,
                     wire |-> b, res |-> r.err ]
        /\ UNCHANGED << db, cache, set >>

\* json.Marshal(&obs) of the observation the last call decoded.
CallObsMarshalJSON ==
    /\ last.op = "Observation.UnmarshalJSON"
    /\ last.res = "nil"
    /\ last' = [ op |-> "Observation.MarshalJSON", obs |-> last.obs,
                 wire |-> [ json |-> TRUE, arr |-> ObsMarshalJSON(last.obs) ],
                 res |-> "nil" ]
    /\ UNCHANGED << db, cache, set >>

\* The codec of Observation: a line is decoded, and the observation encoded.
NextObs ==
    \/ \E b \in WireLines : CallObsUnmarshalJSON(b) /\ UNCHANGED proc
    \/ CallObsMarshalJSON /\ UNCHANGED proc

SpecObs == Init /\ [][NextObs]_vars

\* ------------------------------------------------------ concurrent callers
\* Several goroutines call into one database and one ConditionCache. A
\* step is one database statement or one access of the map; nothing in the
\* code orders the steps of different callers.

\* The names concurrent callers resolve and look up.
ConcLookupNames == SetCondNames \cup { <<"h", ".", "*">> }

\* The statements that read the map, and those that write it.
AtMapRead(p) == proc[p].pc \in {"sc_read", "cb_read1", "cb_read2", "cb_range"}

AtMapWrite(p) == proc[p].pc \in {"sc_write", "rl_write"}

CanBegin(p) == proc[p].pc \in {"idle", "done"} /\ proc[p].calls < MaxCalls

Begun(p, op, pc) ==
    [Idle EXCEPT !.op = op, !.pc = pc, !.calls = proc[p].calls + 1]

\* c.InsertOnce(db) on a new Condition or Path: c.ID == 0 holds.
BeginInsertOnce(p, table, key) ==
    /\ CanBegin(p)
    /\ proc' = [proc EXCEPT ![p] =
                  [Begun(p, "InsertOnce", "io_select") EXCEPT
                     !.table = table, !.c = [ID |-> 0, key |-> key]]]
    /\ UNCHANGED << db, cache, set, last >>

\* SelectOrInsert, first statement: SELECT id WHERE key.
IoSelect(p) ==
    /\ proc[p].pc = "io_select"
    /\ \/ proc' = [proc EXCEPT ![p].pc = "done", ![p].res = "store"]
       \/ \E r \in db[proc[p].table] :
            /\ r.key = proc[p].c.key
            /\ proc' = [proc EXCEPT ![p].c.ID = r.id, ![p].pc = proc[p].ret]
       \/ /\ \A r \in db[proc[p].table] : r.key # proc[p].c.key
          /\ proc' = [proc EXCEPT ![p].pc = "io_insert"]
    /\ UNCHANGED << db, cache, set, last >>

\* SelectOrInsert, second statement: INSERT ... RETURNING id. The tables
\* CreateTables makes from Condition and Path have no unique constraint on
\* name or string, so the INSERT succeeds whatever rows exist.
IoInsert(p) ==
    /\ proc[p].pc = "io_insert"
    /\ \/ /\ proc' = [proc EXCEPT ![p].pc = "done", ![p].res = "store"]
          /\ UNCHANGED db
       \/ LET rows == db[proc[p].table]
              id == NextID(rows)
          IN  /\ db' = [db EXCEPT ![proc[p].table] =
                          rows \cup { [id |-> id, key |-> proc[p].c.key] }]
              /\ proc' = [proc EXCEPT ![p].c.ID = id, ![p].pc = proc[p].ret]
    /\ UNCHANGED << cache, set, last >>

\* cache.SetConditionID(db, &Condition{Name: name})
BeginSetConditionID(p, name) ==
    /\ CanBegin(p)
    /\ proc' = [proc EXCEPT ![p] =
                  [Begun(p, "SetConditionID", "sc_read") EXCEPT
                     !.name = name, !.c = [ID |-> 0, key |-> name]]]
    /\ UNCHANGED << db, cache, set, last >>

\* id, ok := cache[c.Name]
ScRead(p) ==
    /\ proc[p].pc = "sc_read"
    /\ IF proc[p].name \in DOMAIN cache
       THEN proc' = [proc EXCEPT ![p].c.ID = cache[proc[p].name], ![p].pc = "done"]
       ELSE proc' = [proc EXCEPT ![p].pc = "io_select", ![p].ret = "sc_write"]
    /\ UNCHANGED << db, cache, set, last >>

\* cache[c.Name] = c.ID
ScWrite(p) ==
    /\ proc[p].pc = "sc_write"
    /\ cache' = CachePut(cache, proc[p].name, proc[p].c.ID)
    /\ proc' = [proc EXCEPT ![p].pc = "done"]
    /\ UNCHANGED << db, set, last >>

\* cache.Reload(db)
BeginReload(p) ==
    /\ CanBegin(p)
    /\ proc' = [proc EXCEPT ![p] = Begun(p, "Reload", "rl_select")]
    /\ UNCHANGED << db, cache, set, last >>

\* db.Model(&conditions).Select()
RlSelect(p) ==
    /\ proc[p].pc = "rl_select"
    /\ \/ proc' = [proc EXCEPT ![p].pc = "done", ![p].res = "store"]
       \/ proc' = [proc EXCEPT ![p].rows = db.conditions,
                               ![p].pc = IF db.conditions = {} THEN proc[p].ret
                                         ELSE "rl_write"]
    /\ UNCHANGED << db, cache, set, last >>

\* cache[c.Name] = c.ID, for the next of the selected rows
RlWrite(p) ==
    /\ proc[p].pc = "rl_write"
    /\ \E r \in proc[p].rows :
         /\ cache' = CachePut(cache, r.key, r.id)
         /\ proc' = [proc EXCEPT ![p].rows = @ \ {r},
                                 ![p].pc = IF proc[p].rows = {r} THEN proc[p].ret
                                           ELSE "rl_write"]
    /\ UNCHANGED << db, set, last >>

\* cache.ConditionsByName(db, name)
BeginConditionsByName(p, name) ==
    /\ CanBegin(p)
    /\ proc' = [proc EXCEPT ![p] =
                  IF HasSuffix(name, <<".", "*">>)
                  THEN [Begun(p, "ConditionsByName", "rl_select") EXCEPT
                          !.name = name, !.ret = "cb_range"]
                  ELSE [Begun(p, "ConditionsByName", "cb_read1") EXCEPT !.name = name]]
    /\ UNCHANGED << db, cache, set, last >>

\* if cache[conditionName] == 0 { Reload }
CbRead1(p) ==
    /\ proc[p].pc = "cb_read1"
    /\ IF ExactMiss(cache, proc[p].name)
       THEN proc' = [proc EXCEPT ![p].pc = "rl_select", ![p].ret = "cb_read2"]
       ELSE proc' = [proc EXCEPT ![p].pc = "cb_read2"]
    /\ UNCHANGED << db, cache, set, last >>

\* if cache[conditionName] == 0 { return error }; out[0] = ...
CbRead2(p) ==
    /\ proc[p].pc = "cb_read2"
    /\ proc' = [proc EXCEPT ![p].pc = "done",
                            ![p].c.ID = CacheGet(cache, proc[p].name),
                            ![p].res = IF CacheGet(cache, proc[p].name) = 0
                                       THEN "unknown" ELSE "nil"]
    /\ UNCHANGED << db, cache, set, last >>

\* for cachedName := range cache
CbRange(p) ==
    /\ proc[p].pc = "cb_range"
    /\ proc' = [proc EXCEPT ![p].pc = "done"]
    /\ UNCHANGED << db, cache, set, last >>

\* A map write that another caller's map access is not ordered with is a
\* data race: the run may go on with the accesses in either order (the
\* steps above), or the Go runtime stops the process ("fatal error:
\* concurrent map writes").
MapFault(p) ==
    /\ AtMapWrite(p)
    /\ \E q \in Procs \ {p} : AtMapRead(q) \/ AtMapWrite(q)
    /\ proc' = [ q \in Procs |-> [proc[q] EXCEPT !.pc = "fatal"] ]
    /\ UNCHANGED << db, cache, set, last >>

NextConc ==
    \/ \E p \in Procs, name \in SetCondNames : BeginInsertOnce(p, "conditions", name)
    \/ \E p \in Procs, str \in PathStrings : BeginInsertOnce(p, "paths", str)
    \/ \E p \in Procs : IoSelect(p)
    \/ \E p \in Procs : IoInsert(p)
    \/ \E p \in Procs, name \in SetCondNames : BeginSetConditionID(p, name)
    \/ \E p \in Procs : ScRead(p)
    \/ \E p \in Procs : ScWrite(p)
    \/ \E p \in Procs : BeginReload(p)
    \/ \E p \in Procs : RlSelect(p)
    \/ \E p \in Procs : RlWrite(p)
    \/ \E p \in Procs, name \in ConcLookupNames : BeginConditionsByName(p, name)
    \/ \E p \in Procs : CbRead1(p)
    \/ \E p \in Procs : CbRead2(p)
    \/ \E p \in Procs : CbRange(p)
    \/ \E p \in Procs : MapFault(p)

SpecConc == Init /\ [][NextConc]_vars

\* ------------------------------------------------------------- the schema
\* With a schema the database is the tables that exist (exists) and their
\* rows; a table that does not exist holds no rows.

\* The tables, in the order CreateTables creates them.
CreateOrder ==
    << "conditions", "paths", "observation_sets", "observations",
       "observation_set_to_conditions" >>

\* The tables, in the order DropTables drops them.
DropOrder ==
    << "observations", "observation_sets", "conditions", "paths",
       "observation_set_to_conditions" >>

\* db.CreateTable with IfNotExists, and CREATE TABLE IF NOT EXISTS.
CreateTableIfNotExists(d, t) ==
    IF t \in d.exists THEN d ELSE [d EXCEPT !.exists = @ \cup {t}]

\* db.DropTable with nil options, and DROP TABLE: neither says IF EXISTS,
\* so the statement is an error when the table does not exist.
DropTable(d, t) ==
    IF t \notin d.exists
    THEN [ db |-> d, err |-> "does not exist" ]
    ELSE [ db |-> [d EXCEPT !.exists = @ \ {t},
                            ![t] = IF t = "observation_set_to_conditions"
                                   THEN << >> ELSE {}],
           err |-> "nil" ]

\* The statements of CreateTables from the i-th on. The function given to
\* RunInTransaction runs them on db, not on tx, so what they have done
\* stays when a later one fails. failAt: the statement that fails for a
\* reason of the database (6: the commit), 0 none.
RECURSIVE CreateFrom(_, _, _)
CreateFrom(d, i, failAt) ==
    IF failAt = i THEN [ db |-> d, err |-> "store" ]
    ELSE IF i > Len(CreateOrder) THEN [ db |-> d, err |-> "nil" ]
    ELSE CreateFrom(CreateTableIfNotExists(d, CreateOrder[i]), i + 1, failAt)

\* PTOConfiguration.CreateTables
CreateTables(d, failAt) == CreateFrom(d, 1, failAt)

\* The statements of DropTables from the i-th on, run on db as well.
RECURSIVE DropFrom(_, _, _)
DropFrom(d, i, failAt) ==
    IF failAt = i THEN [ db |-> d, err |-> "store" ]
    ELSE IF i > Len(DropOrder) THEN [ db |-> d, err |-> "nil" ]
    ELSE LET r == DropTable(d, DropOrder[i])
         IN  IF r.err # "nil" THEN r ELSE DropFrom(r.db, i + 1, failAt)

\* PTOConfiguration.DropTables
DropTables(d, failAt) == DropFrom(d, 1, failAt)

\* A database without tables.
InitSchema ==
    /\ db = [ exists |-> {}, conditions |-> {}, paths |-> {},
              observation_sets |-> {}, observation_set_to_conditions |-> <<>>,
              observations |-> {} ]
    /\ cache = << >>
    /\ set = [ s \in SetInstances |-> ZeroSet ]
    /\ last = [ op |-> "none", res |-> "nil", pre |-> << >> ]
    /\ proc = [ p \in Procs |-> Idle ]

\* config.CreateTables(db); pre is the database it was called on.
CallCreateTables ==
    \E failAt \in 0..(Len(CreateOrder) + 1) :
      LET r == CreateTables(db, failAt)
      IN  /\ db' = r.db
          /\ last' = [ op |-> "CreateTables", res |-> r.err, pre |-> db ]
          /\ UNCHANGED << cache, set >>

\* config.DropTables(db)
CallDropTables ==
    \E failAt \in 0..(Len(DropOrder) + 1) :
      LET r == DropTables(db, failAt)
      IN  /\ db' = r.db
          /\ last' = [ op |-> "DropTables", res |-> r.err, pre |-> db ]
          /\ UNCHANGED << cache, set >>

\* (&Condition{Name: name}).InsertOnce(db) and (&Path{String: str})
\* .InsertOnce(db) on a database that has the table.
InsertOnceInSchema ==
    \/ /\ "conditions" \in db.exists
       /\ \E name \in SetCondNames, fails \in BOOLEAN :
            LET r == ConditionInsertOnce(db, [ID |-> 0, Name |-> name], fails)
            IN  /\ db' = r.db
                /\ last' = [ op |-> "Condition.InsertOnce", res |-> r.err, pre |-> db ]
       /\ UNCHANGED << cache, set >>
    \/ /\ "paths" \in db.exists
       /\ \E str \in PathStrings, fails \in BOOLEAN :
            LET r == PathInsertOnce(db, [ID |-> 0, String |-> str], fails)
            IN  /\ db' = r.db
                /\ last' = [ op |-> "Path.InsertOnce", res |-> r.err, pre |-> db ]
       /\ UNCHANGED << cache, set >>

\* The schema is created and dropped, and rows are stored in between.
NextSchema ==
    \/ CallCreateTables /\ UNCHANGED proc
    \/ CallDropTables /\ UNCHANGED proc
    \/ InsertOnceInSchema /\ UNCHANGED proc

SpecSchema == InitSchema /\ [][NextSchema]_vars

\* ------------------------------------------------------ observation files
\* A file of observations is its lines.

\* The most lines a file has.
MaxLines == 3

\* The lines of the files: an observation with no value, with the value 5
\* and with the value 0, a line of four elements, and bytes that are not a
\* JSON array.
FileLines ==
    { [ json |-> TRUE,
        arr |-> << JStr(<< "7" >>), JStr(<< "t", "1" >>), JStr(<< "t", "2" >>),
                   JStr(<< "p" >>), JStr(<< "f", ".", "g" >>) >> \o va ] :
        va \in { << >>, << JNum(5) >>, << JNum(0) >> } }
      \cup { [ json |-> TRUE,
               arr |-> << JStr(<< "7" >>), JStr(<< "t", "1" >>), JStr(<< "t", "2" >>),
                          JStr(<< "p" >>) >> ],
             [ json |-> FALSE, arr |-> << >> ] }

\* The loop of ReadObservations from the i-th line on: every line is
\* decoded into the one variable obs, and the value obs then has is
\* appended to out.
RECURSIVE ReadFrom(_, _, _, _)
ReadFrom(lines, i, obs, out) ==
    IF i > Len(lines) THEN [ out |-> out, err |-> "nil" ]
    ELSE LET r == ObsUnmarshalJSON(obs, lines[i])
         IN  IF r.err # "nil" THEN [ out |-> << >>, err |-> r.err ]
             ELSE ReadFrom(lines, i + 1, r.obs, Append(out, r.obs))

\* ReadObservations
ReadObservations(lines) == ReadFrom(lines, 1, ZeroObservation, << >>)

\* UnmarshalObservations
UnmarshalObservations(lines) == ReadObservations(lines)

\* WriteObservations: a line for every observation.
WriteObservations(obsdat) ==
    [ i \in 1..Len(obsdat) |-> [ json |-> TRUE, arr |-> ObsMarshalJSON(obsdat[i]) ] ]

\* MarshalObservations
MarshalObservations(obsdat) == WriteObservations(obsdat)

\* UnmarshalObservations(in) for a file in of these lines.
CallUnmarshalObservations(lines) ==
    LET r == UnmarshalObservations(lines)
    IN  /\ last' = [ op |-> "UnmarshalObservations", lines |-> lines,
                     obsdat |-> << >>, out |-> r.out, res |-> r.err ]
        /\ UNCHANGED << db, cache, set >>

\* MarshalObservations(obsdat) of the observations the last call read.
CallMarshalObservations ==
    /\ last.op = "UnmarshalObservations"
    /\ last.res = "nil"
    /\ last' = [ op |-> "MarshalObservations", lines |-> MarshalObservations(last.out),
                 obsdat |-> last.out, out |-> << >>, res |-> "nil" ]
    /\ UNCHANGED << db, cache, set >>

\* UnmarshalObservations(b) of the bytes b the last call wrote for obsdat.
CallUnmarshalMarshalled ==
    /\ last.op = "MarshalObservations"
    /\ LET r == UnmarshalObservations(last.lines)
       IN  last' = [ op |-> "UnmarshalObservations(MarshalObservations)",
                     lines |-> last.lines, obsdat |-> last.obsdat,
                     out |-> r.out, res |-> r.err ]
    /\ UNCHANGED << db, cache, set >>

\* Files are read, what was read is written, and what was written is read.
NextRead ==
    \/ \E lines \in SeqsUpTo(FileLines, MaxLines) :
         CallUnmarshalObservations(lines) /\ UNCHANGED proc
    \/ CallMarshalObservations /\ UNCHANGED proc
    \/ CallUnmarshalMarshalled /\ UNCHANGED proc

SpecRead == Init /\ [][NextRead]_vars

\* -------------------------------------------------- the cache and the store

\* LoadConditionCache(db): a new map, reloaded. The caller gets no cache
\* when Reload fails and goes on with the one it had.
LoadConditionCache(d, fails) == Reload(<< >>, d, fails)

\* cache, err = LoadConditionCache(db)
CallLoadConditionCache ==
    \E fails \in BOOLEAN :
      LET r == LoadConditionCache(db, fails)
      IN  /\ cache' = IF r.err = "nil" THEN r.cache ELSE cache
          /\ last' = [NoCall EXCEPT !.op = "LoadConditionCache", !.res = r.err,
                                    !.reloads = 1]
          /\ UNCHANGED << db, set >>

\* Every call on the cache, on conditions that json.Unmarshal produced (sets)
\* or that hold a name and no id, one call after the other.
NextAgree ==
    \/ \E s \in SetInstances, names \in SeqsUpTo(SetCondNames, MaxConds) :
         UnmarshalJSON(s, names) /\ UNCHANGED proc
    \/ \E s \in SetInstances : CallFillConditionIDsInSet(s) /\ UNCHANGED proc
    \/ \E s \in SetInstances, i \in 1..MaxConds :
         CallSetConditionIDInSet(s, i) /\ UNCHANGED proc
    \/ \E name \in CondNames : CallSetConditionID(name) /\ UNCHANGED proc
    \/ \E name \in CondNames : CallConditionInsertOnce(name) /\ UNCHANGED proc
    \/ CallReload /\ UNCHANGED proc
    \/ CallLoadConditionCache /\ UNCHANGED proc
    \/ \E name \in LookupNames : CallConditionsByName(name) /\ UNCHANGED proc

SpecAgree == Init /\ [][NextAgree]_vars

\* ---------------------------------------------------------- JWTAuthorizer
\* A header value and a token are sequences of symbols: " " is white
\* space, "." the separator of a token's segments, and every other symbol
\* stands for a run of characters without either.

\* The keys: the empty key, and two secrets.
AuthKeys == { "", "k1", "k2" }

\* The permissions callers ask for.
Permissions == { "read", "write" }

\* The signing methods a token's header names ("alg").
SigningMethods == { "HS256", "RS256", "none" }

\* The methods that are a *jwt.SigningMethodHMAC.
SigningMethodHMAC == { "HS256" }

\* The claims a token's second segment decodes to (a JSON object): the
\* entries of the permissions (true, false, a string or null) and whether
\* the registered claims are valid now (exp, nbf, iat).
ClaimsOf ==
    [ c \in { "c0", "cT", "cF", "cS", "cN", "cW", "cX" } |->
        IF c = "c0" THEN [ entries |-> [ p \in {} |-> "true" ], valid |-> TRUE ]
        ELSE IF c = "cT" THEN [ entries |-> [ p \in {"read"} |-> "true" ], valid |-> TRUE ]
        ELSE IF c = "cF" THEN [ entries |-> [ p \in {"read"} |-> "false" ], valid |-> TRUE ]
        ELSE IF c = "cS" THEN [ entries |-> [ p \in {"read"} |-> "string" ], valid |-> TRUE ]
        ELSE IF c = "cN" THEN [ entries |-> [ p \in {"read"} |-> "null" ], valid |-> TRUE ]
        ELSE IF c = "cW" THEN [ entries |-> [ p \in {"read", "write"} |->
                                               IF p = "write" THEN "true" ELSE "false" ],
                                valid |-> TRUE ]
        ELSE [ entries |-> [ p \in {"read"} |-> "true" ], valid |-> FALSE ] ]

\* The third segment of a token: the HMAC of its first two segments under
\* a key.
SignatureUnder == [ k \in AuthKeys |-> IF k = "" THEN "s0" ELSE IF k = "k1" THEN "s1" ELSE "s2" ]

\* The pieces of s between the symbols sep, empty pieces included
\* (strings.Split).
RECURSIVE Split(_, _)
Split(s, sep) ==
    IF \A i \in 1..Len(s) : s[i] # sep THEN << s >>
    ELSE LET k == CHOOSE i \in 1..Len(s) :
                    s[i] = sep /\ \A j \in 1..(i - 1) : s[j] # sep
         IN  << SubSeq(s, 1, k - 1) >> \o Split(SubSeq(s, k + 1, Len(s)), sep)

\* strings.Fields: the pieces of s between runs of white space.
Fields(s) == SelectSeq(Split(s, " "), LAMBDA f : f # << >>)

\* jwt.Parse(tokenString, keyFunc) with the key function of IsAuthorized,
\* which refuses every method that is not HMAC and returns azr.Key: the
\* token has three segments, names a known method, carries claims that
\* decode, passes the key function, has valid registered claims and a
\* signature that verifies under the key. token.Valid is set only when
\* there is no error.
JwtParse(tokenString, key) ==
    LET seg == Split(tokenString, ".")
        bad == [ err |-> TRUE, valid |-> FALSE, claims |-> [ p \in {} |-> "true" ] ]
    IN  IF Len(seg) # 3 \/ \E i \in 1..3 : Len(seg[i]) # 1 THEN bad
        ELSE IF seg[1][1] \notin SigningMethods THEN bad
        ELSE IF seg[2][1] \notin DOMAIN ClaimsOf THEN bad
        ELSE IF seg[1][1] \notin SigningMethodHMAC THEN bad
        ELSE IF ~ClaimsOf[seg[2][1]].valid THEN bad
        ELSE IF seg[3][1] # SignatureUnder[key] THEN bad
        ELSE [ err |-> FALSE, valid |-> TRUE, claims |-> ClaimsOf[seg[2][1]].entries ]

\* "perm, ok := permEntry.(bool)" and the test "!perm || !ok" negated.
MutGrantedAnyBool(permEntry) == permEntry \in {"true", "false"}

Granted(permEntry) == permEntry = "true"

\* JWTAuthorizer.IsAuthorized: what it returns and the status http.Error
\* writes to w (0: nothing is written).
IsAuthorized(azr, authhdr, permission) ==
    LET authfield == Fields(authhdr)
        token == JwtParse(authfield[2], azr.Key)
        permEntry == IF permission \in DOMAIN token.claims
                     THEN token.claims[permission] ELSE "null"
    IN  IF authhdr = << >> THEN [ res |-> FALSE, status |-> 400 ]
        ELSE IF Len(authfield) < 2 THEN [ res |-> FALSE, status |-> 400 ]
        ELSE IF authfield[1] # << "Bearer" >> THEN [ res |-> FALSE, status |-> 400 ]
        ELSE IF token.err THEN [ res |-> FALSE, status |-> 400 ]
        ELSE IF ~token.valid THEN [ res |-> FALSE, status |-> 400 ]
        ELSE IF permEntry = "null" THEN [ res |-> FALSE, status |-> 403 ]
        ELSE IF ~Granted(permEntry) THEN [ res |-> FALSE, status |-> 403 ]
        ELSE [ res |-> TRUE, status |-> 0 ]

\* base64.StdEncoding.DecodeString of the strings configurations hold.
Base64Decode(s) ==
    IF s = << >> THEN [ bytes |-> "", err |-> "nil" ]
    ELSE IF s = << "azE=" >> THEN [ bytes |-> "k1", err |-> "nil" ]
    ELSE IF s = << "azI=" >> THEN [ bytes |-> "k2", err |-> "nil" ]
    ELSE [ bytes |-> "", err |-> "base64" ]

\* JWTAuthorizer.Configure: config maps "key" and "secret" to JSON values.
Configure(azr, config) ==
    LET get(k) == IF k \in DOMAIN config THEN config[k] ELSE JNull
        keyEntry == IF get("key") = JNull THEN get("secret") ELSE get("key")
        dec == Base64Decode(keyEntry.s)
    IN  IF keyEntry.t # "string" THEN [ azr |-> azr, err |-> "Invalid config!" ]
        ELSE IF dec.err # "nil" THEN [ azr |-> azr, err |-> dec.err ]
        ELSE [ azr |-> [azr EXCEPT !.Key = dec.bytes], err |-> "nil" ]

\* The configurations: a key or a secret, both, neither, a key that is not
\* a string, and a key that is not base64.
AuthConfigs ==
    { [ k \in {"key"} |-> JStr(<< "azE=" >>) ],
      [ k \in {"secret"} |-> JStr(<< "azI=" >>) ],
      [ k \in {"key", "secret"} |-> IF k = "key" THEN JNull ELSE JStr(<< "azE=" >>) ],
      [ k \in {"key"} |-> JStr(<< >>) ],
      [ k \in {} |-> JNull ],
      [ k \in {"key"} |-> JNum(5) ],
      [ k \in {"key"} |-> JStr(<< "!" >>) ] }

\* The tokens requests carry: three segments, and tokens of two segments
\* and of one.
AuthTokens ==
    { << m, ".", c, ".", s >> :
        m \in SigningMethods, c \in DOMAIN ClaimsOf \cup {"x"}, s \in {"s0", "s1", "s2"} }
      \cup { << "HS256", ".", "cT" >>, << "x" >> }

\* The values of the Authorization header: none, white space, a scheme
\* alone, Bearer and a token with white space before, between and after,
\* Bearer and a token with more after it, another scheme, and Bearer with
\* no white space before the token.
AuthHeaders ==
    { << >>, << " " >>, << "Bearer" >>, << "Bearer", " " >> }
      \cup { << "Bearer", " " >> \o t : t \in AuthTokens }
      \cup { << " ", "Bearer", " ", " " >> \o t \o << " " >> : t \in AuthTokens }
      \cup { << "Bearer", " " >> \o t \o << " ", "x" >> : t \in AuthTokens }
      \cup { << "Basic", " " >> \o t : t \in AuthTokens }
      \cup { << "Bearer" >> \o t : t \in AuthTokens }

\* An authorizer that has not been configured; last holds the authorizer
\* and the last call made on it.
InitAuth ==
    /\ db = [ conditions |-> {}, paths |-> {}, observation_sets |-> {},
              observation_set_to_conditions |-> <<>>, observations |-> {} ]
    /\ cache = << >>
    /\ set = [ s \in SetInstances |-> ZeroSet ]
    /\ last = [ azr |-> [ Key |-> "" ], op |-> "none", hdr |-> << >>,
                permission |-> "", res |-> FALSE, status |-> 0, err |-> "nil" ]
    /\ proc = [ p \in Procs |-> Idle ]

\* azr.Configure(config)
CallConfigure(config) ==
    LET r == Configure(last.azr, config)
    IN  /\ last' = [ azr |-> r.azr, op |-> "Configure", hdr |-> << >>,
                     permission |-> "", res |-> FALSE, status |-> 0, err |-> r.err ]
        /\ UNCHANGED << db, cache, set >>

\* azr.IsAuthorized(w, r, permission) for a request r with this
\* Authorization header.
CallIsAuthorized(authhdr, permission) ==
    LET r == IsAuthorized(last.azr, authhdr, permission)
    IN  /\ last' = [ azr |-> last.azr, op |-> "IsAuthorized", hdr |-> authhdr,
                     permission |-> permission, res |-> r.res, status |-> r.status,
                     err |-> "nil" ]
        /\ UNCHANGED << db, cache, set >>

\* The authorizer is configured, and requests are authorized.
NextAuth ==
    \/ \E config \in AuthConfigs : CallConfigure(config) /\ UNCHANGED proc
    \/ \E authhdr \in AuthHeaders, permission \in Permissions :
         CallIsAuthorized(authhdr, permission) /\ UNCHANGED proc

SpecAuth == InitAuth /\ [][NextAuth]_vars

\* ================================================================ claims

\* The names a set declares.
DeclaredNames(s) == { s.Conditions[i].Name : i \in 1..Len(s.Conditions) }

\* The association rows of the set row with this id.
LinksOf(id) ==
    { i \in 1..Len(db.observation_set_to_conditions) :
        db.observation_set_to_conditions[i].observation_set_id = id }

\* C1: when FillConditionIDsInSet has returned nil on a set, every condition
\* of the set holds a non-zero id, the id of the conditions row with its name.
C1_FillAssignsIDs ==
    (last.op = "FillConditionIDsInSet" /\ last.res = "nil") =>
        \A i \in 1..Len(set[last.set].Conditions) :
            LET c == set[last.set].Conditions[i]
            IN  /\ c.ID # 0
                /\ [id |-> c.ID, key |-> c.Name] \in db.conditions

\* C2: an InsertInSet that follows a FillConditionIDsInSet returning nil on
\* the same set, for an observation whose condition name the set declares,
\* returns nil (unless the database fails) and adds one observations row
\* with the set's id, the ids of the path and condition rows and the value.
C2_EndToEnd ==
    [][ ( /\ last.op = "FillConditionIDsInSet" /\ last.res = "nil"
          /\ last'.op = "InsertInSet" /\ last'.set = last.set
          /\ last'.name \in DeclaredNames(set[last.set])
          /\ last'.res # "store" )
        => /\ last'.res = "nil"
           /\ \E row \in db'.observations \ db.observations :
                /\ db'.observations = db.observations \cup {row}
                /\ row.set_id = set'[last'.set].ID
                /\ [id |-> row.set_id, set |-> last'.set] \in db'.observation_sets
                /\ [id |-> row.path_id, key |-> last'.obs.Path] \in db'.paths
                /\ [id |-> row.condition_id, key |-> last'.name] \in db'.conditions
                /\ row.value = last'.obs.Value ]_vars

\* C3: InsertInSet of an observation whose condition name the set does not
\* declare never returns nil and adds no observations row: it returns the
\* undeclared-condition error, or the error of the path or condition
\* InsertOnce when that database call failed before the check.
C3_UndeclaredRejected ==
    (last.op = "InsertInSet" /\ last.name \notin DeclaredNames(set[last.set])) =>
        /\ last.res \in {"undeclared", "store"}
        /\ last.writes.observations = 0
        /\ last.res = "store" =>
             last.writes.observation_sets = 0 /\ last.writes.links = 0

\* C3 witness: a set whose declared conditions are resolved rejects an
\* observation with another condition.
C3_Witness ==
    /\ last.op = "InsertInSet"
    /\ last.name \notin DeclaredNames(set[last.set])
    /\ last.res = "undeclared"
    /\ \E id \in set[last.set].conditionDeclared.ids : id # 0

\* C4: every observation_sets row comes with one association row for each
\* condition its set declares.
C4_SetInsertAtomic ==
    \A row \in db.observation_sets :
        Cardinality(LinksOf(row.id)) = Len(set[row.set].Conditions)

\* C5: a non-forced Insert, alone or from InsertInSet, on a set whose id is
\* assigned adds no observation_sets row and no association row and leaves
\* the id as it was; an id gets assigned only together with the insert of
\* the observation_sets row that carries it.
C5_InsertIdempotent ==
    /\ (last.op = "Insert" /\ ~last.force /\ last.preID # 0) => last.res = "nil"
    /\ (last.op \in {"Insert", "InsertInSet"} /\ ~last.force /\ last.preID # 0) =>
          /\ set[last.set].ID = last.preID
          /\ last.writes.observation_sets = 0
          /\ last.writes.links = 0
    /\ (last.op \in {"Insert", "InsertInSet"} /\ ~last.force /\ last.preID = 0
          /\ set[last.set].ID # 0) =>
          /\ last.writes.observation_sets = 1
          /\ [id |-> set[last.set].ID, set |-> last.set] \in db.observation_sets
    /\ (last.op \notin {"Insert", "InsertInSet"} /\ last.set \in SetInstances) =>
          set[last.set].ID = last.preID

\* C5 witness: Insert without force on a set that is already inserted.
C5_Witness ==
    /\ last.op = "Insert" /\ ~last.force /\ last.preID # 0
    /\ last.res = "nil"
    /\ Len(set[last.set].Conditions) > 0

\* C6: the conditions table holds one row per name and the paths table one
\* row per string, and an inserted observation refers to those rows.
C6_OneRowPerKey ==
    /\ \A r1, r2 \in db.conditions : r1.key = r2.key => r1.id = r2.id
    /\ \A r1, r2 \in db.paths : r1.key = r2.key => r1.id = r2.id
    /\ (last.op = "InsertInSet" /\ last.res = "nil") =>
          \E row \in db.observations :
             /\ row.id = Cardinality(db.observations)
             /\ [id |-> row.condition_id, key |-> last.name] \in db.conditions
             /\ [id |-> row.path_id, key |-> last.obs.Path] \in db.paths

\* C6 witness: an observation inserted with a condition name and a path
\* string whose rows an earlier call created.
C6_Witness ==
    /\ last.op = "InsertInSet" /\ last.res = "nil"
    /\ last.writes.conditions = 0 /\ last.writes.paths = 0
    /\ last.writes.observations = 1

\* A pattern ending in ".*", and a name starting with it up to the "*".
IsWildcard(name) ==
    Len(name) >= 2 /\ name[Len(name)] = "*" /\ name[Len(name) - 1] = "."

StartsWithPattern(n, pattern) ==
    \A i \in 1..(Len(pattern) - 1) : i <= Len(n) /\ n[i] = pattern[i]

\* C9: a lookup with a pattern ending in ".*" reloads once; unless the
\* reload fails it returns, each once, the conditions rows (name and id)
\* whose name starts with the pattern up to its "*", and nothing else.
C9_WildcardLookup ==
    (last.op = "ConditionsByName" /\ IsWildcard(last.name)) =>
        /\ last.reloads = 1
        /\ last.res \in {"nil", "store"}
        /\ last.res = "nil" =>
             /\ \A i, j \in 1..Len(last.out) : last.out[i] = last.out[j] => i = j
             /\ { last.out[i] : i \in 1..Len(last.out) } =
                  { [Name |-> r.key, ID |-> r.id] :
                      r \in { q \in db.conditions : StartsWithPattern(q.key, last.name) } }

\* C9 witness: "h.*" returns two conditions while another one exists.
C9_Witness ==
    /\ last.op = "ConditionsByName" /\ last.name = <<"h", ".", "*">>
    /\ last.res = "nil"
    /\ Len(last.out) = 2
    /\ \E r \in db.conditions : r.key = <<"f", ".", "g">>

\* C10: a lookup with a name not ending in ".*" reloads zero times when the
\* name is in the cache and once when it is not.
C10_ExactLookupReloads ==
    (last.op = "ConditionsByName" /\ ~IsWildcard(last.name)) =>
        last.reloads = (IF last.cached THEN 0 ELSE 1)

\* C10 witness: a name that is not cached is found after one reload.
C10_Witness ==
    /\ last.op = "ConditionsByName" /\ ~IsWildcard(last.name)
    /\ ~last.cached
    /\ last.reloads = 1
    /\ last.res = "nil"

\* C7: with concurrent callers of InsertOnce, the conditions table holds one
\* row per name and the paths table one row per string, and a caller that
\* has returned nil holds the id of the row with its key.
C7_ConcurrentInsertOnce ==
    /\ \A r1, r2 \in db.conditions : r1.key = r2.key => r1.id = r2.id
    /\ \A r1, r2 \in db.paths : r1.key = r2.key => r1.id = r2.id
    /\ \A p \in Procs :
         (proc[p].op = "InsertOnce" /\ proc[p].pc = "done" /\ proc[p].res = "nil") =>
            [id |-> proc[p].c.ID, key |-> proc[p].c.key] \in db[proc[p].table]

\* C8: no caller is at a write of the cache map while another caller is at
\* a read or a write of it.
C8_CacheAccessExclusive ==
    \A p, q \in Procs :
        (p # q /\ AtMapWrite(p)) => ~(AtMapRead(q) \/ AtMapWrite(q))

\* C11: a lookup with a name not ending in ".*" writes nothing to the
\* conditions table; when a row with the name exists it returns the one
\* condition (name, id of the row), whatever the cache held, unless the
\* reload it needed failed; when neither a row nor a cache entry exists it
\* returns the unknown-condition error (or the error of the failed reload)
\* and the cache has no entry for the name afterwards.
C11_ExactLookup ==
    [][ (last'.op = "ConditionsByName" /\ ~IsWildcard(last'.name)) =>
          /\ db' = db
          /\ (\E r \in db.conditions : r.key = last'.name) =>
                /\ last'.res \in {"nil", "store"}
                /\ last'.res = "store" => last'.name \notin DOMAIN cache
                /\ last'.res = "nil" =>
                      /\ Len(last'.out) = 1
                      /\ last'.out[1].Name = last'.name
                      /\ [id |-> last'.out[1].ID, key |-> last'.name] \in db.conditions
          /\ ( /\ \A r \in db.conditions : r.key # last'.name
               /\ last'.name \notin DOMAIN cache ) =>
                /\ last'.res \in {"unknown", "store"}
                /\ last'.out = << >>
                /\ last'.name \notin DOMAIN cache' ]_vars

\* C11 witness: a name that no row and no cache entry has is looked up
\* while other conditions exist, and the lookup reports it unknown.
C11_Witness ==
    /\ last.op = "ConditionsByName" /\ ~IsWildcard(last.name)
    /\ last.res = "unknown"
    /\ db.conditions # {}
    /\ last.name \notin DOMAIN cache

\* C12: a Reload that returns nil leaves every cached name cached and maps
\* the name of every conditions row to the id of that row; a Reload that
\* fails returns the store's error.
C12_ReloadMonotonic ==
    [][ last'.op = "Reload" =>
          IF last'.res = "nil"
          THEN /\ DOMAIN cache \subseteq DOMAIN cache'
               /\ \A r \in db.conditions :
                     r.key \in DOMAIN cache' /\ cache'[r.key] = r.id
          ELSE last'.res = "store" ]_vars

\* C12 witness: after a Reload the cache holds a name no row has, with the
\* id its caller held, and the name of a row with the row's id.
C12_Witness ==
    /\ last.op = "Reload" /\ last.res = "nil"
    /\ \E n \in DOMAIN cache : cache[n] = 2 /\ \A r \in db.conditions : r.key # n
    /\ \E r \in db.conditions : r.id # 2 /\ cache[r.key] = r.id

\* C13: SetConditionID on a condition that has a name and no id: when the
\* name is cached the call cannot fail, writes nothing and gives the
\* condition the cached id; when it is not, a call that returns nil leaves
\* one conditions row with the name (inserted by this call if there was
\* none), the condition holds the id of that row and the cache maps the name
\* to it; a call that fails leaves the cache and the table as they were.
C13_Resolve ==
    [][ (last'.op = "SetConditionID" /\ last'.preID = 0) =>
          IF last'.name \in DOMAIN cache
          THEN /\ last'.res = "nil"
               /\ db' = db /\ cache' = cache
               /\ last'.out = << [ID |-> cache[last'.name], Name |-> last'.name] >>
          ELSE IF last'.res = "nil"
          THEN \E row \in db'.conditions :
                 /\ row.key = last'.name
                 /\ db'.conditions = db.conditions \cup {row}
                 /\ last'.out = << [ID |-> row.id, Name |-> last'.name] >>
                 /\ cache' = CachePut(cache, last'.name, row.id)
          ELSE /\ last'.res = "store"
               /\ db' = db /\ cache' = cache ]_vars

\* C13 witness: a miss that finds the row an earlier InsertOnce created.
C13_Witness ==
    /\ last.op = "SetConditionID" /\ last.preID = 0
    /\ ~last.cached /\ last.res = "nil"
    /\ last.writes.conditions = 0
    /\ cache[last.name] = last.out[1].ID

\* C14: every CountObservations on an instance returns what the first one
\* on that instance returned.
C14_CountOnce ==
    last.op = "CountObservations" =>
        set[last.set].count = set[last.set].counted[1]

\* A set with sources, an analyzer and conditions.
ValidSet(st) ==
    /\ ~st.nilSources /\ Len(st.Sources) > 0
    /\ st.Analyzer # << >>
    /\ ~st.nilConditions /\ Len(st.Conditions) > 0

\* The names of the conditions of a set, in order.
ConditionNames(st) == [ i \in 1..Len(st.Conditions) |-> st.Conditions[i].Name ]

\* C15: what MarshalJSON writes for a set with sources, an analyzer and
\* conditions decodes without error, in whatever order the keys are visited,
\* into a new instance with the same sources, analyzer, condition names and
\* metadata.
C15_SetRoundTrip ==
    (last.op = "ObservationSet.MarshalJSON" /\ ValidSet(set[last.set])) =>
        \A r \in DecodeOutcomes(ZeroSet, last.wire) :
                /\ r.err = "nil"
                /\ r.set.Sources = set[last.set].Sources
                /\ r.set.Analyzer = set[last.set].Analyzer
                /\ ConditionNames(r.set) = ConditionNames(set[last.set])
                /\ r.set.Metadata = set[last.set].Metadata

\* C15 witness: a linked and counted set with metadata and resolved
\* conditions is encoded.
C15_Witness ==
    /\ last.op = "ObservationSet.MarshalJSON"
    /\ ValidSet(set[last.set])
    /\ DOMAIN set[last.set].Metadata # {}
    /\ set[last.set].link # << >>
    /\ set[last.set].count # 0
    /\ set[last.set].Conditions[1].ID # 0

\* C16: what MarshalJSON writes for an observation decodes without error
\* into an observation with the same set id, start, end, path string,
\* condition name and value, and it has 5 elements when the value is 0 and
\* 6 when it is not.
C16_ObservationRoundTrip ==
    last.op = "Observation.MarshalJSON" =>
        LET r == ObsUnmarshalJSON(ZeroObservation, last.wire)
        IN  /\ r.err = "nil"
            /\ r.obs.SetID = last.obs.SetID
            /\ r.obs.Start = last.obs.Start
            /\ r.obs.End = last.obs.End
            /\ r.obs.Path.String = last.obs.Path.String
            /\ r.obs.Condition.Name = last.obs.Condition.Name
            /\ r.obs.Value = last.obs.Value
            /\ Len(last.wire.arr) = (IF last.obs.Value = 0 THEN 5 ELSE 6)

\* The input lacks what the key k must hold: the key, or an array of
\* strings that is not empty (for "_analyzer": a string).
Lacks(b, k) ==
    \/ ~b.json
    \/ k \notin DOMAIN b.obj
    \/ IF k = KeyAnalyzer
       THEN b.obj[k].t # "string"
       ELSE \/ b.obj[k].t # "array"
            \/ b.obj[k].a = << >>
            \/ \E i \in 1..Len(b.obj[k].a) : b.obj[k].a[i].t # "string"

\* C17: a set that UnmarshalJSON returns without error has sources, an
\* analyzer and conditions, and an input that lacks "_sources", "_analyzer"
\* or "_conditions" is rejected.
C17_DecodeValidates ==
    last.op = "ObservationSet.UnmarshalJSON" =>
        /\ last.res = "nil" => ValidSet(set[last.set])
        /\ (\E k \in {KeySources, KeyAnalyzer, KeyConditions} : Lacks(last.wire, k)) =>
              last.res # "nil"

\* C18: the undeclared-condition error of InsertInSet is of another kind
\* than the error InsertInSet returns when the database fails.
C18_ClientErrorsDistinct ==
    (last.op = "InsertInSet" /\ last.res = "undeclared") =>
        InsertInSetErrorKind(last.res) # InsertInSetErrorKind("store")

\* C19: after an UnmarshalJSON that returns nil the id of the instance is
\* 0, whatever it was, and the conditions made from "_conditions" have the
\* names of the array, in order, and the id 0.
C19_DecodeResetsID ==
    (last.op = "ObservationSet.UnmarshalJSON" /\ last.res = "nil") =>
        /\ set[last.set].ID = 0
        /\ KeyConditions \in DOMAIN last.wire.obj =>
              set[last.set].Conditions =
                  [ i \in 1..Len(last.wire.obj[KeyConditions].a) |->
                      [ID |-> 0, Name |-> last.wire.obj[KeyConditions].a[i].s] ]

\* C19 witness: an instance that held the id of a row is decoded into.
C19_Witness ==
    /\ last.op = "ObservationSet.UnmarshalJSON" /\ last.res = "nil"
    /\ last.preID # 0
    /\ KeyConditions \in DOMAIN last.wire.obj
    /\ Len(set[last.set].Conditions) = 2

\* The input without its keys that start with "__".
StripIgnored(b) ==
    [ b EXCEPT !.obj = [ k \in { m \in DOMAIN b.obj : ~(Len(m) >= 2 /\ m[1] = "_" /\ m[2] = "_") }
                           |-> b.obj[k] ] ]

\* C20: UnmarshalJSON of an input returns nil exactly when it does for the
\* input without its "__" keys, and then leaves the same instance; no
\* instance has a metadata key that starts with "__"; and MarshalJSON writes
\* "__link" and "__data" only for an instance LinkVia was called on and
\* "__obs_count" only for one whose count is not 0.
C20_ComputedKeysIgnored ==
    [][ /\ last'.op = "ObservationSet.UnmarshalJSON" =>
              \A r \in DecodeOutcomes(set[last'.set], StripIgnored(last'.wire)) :
                  /\ (r.err = "nil") = (last'.res = "nil")
                  /\ r.err = "nil" =>
                        r.set = [set'[last'.set] EXCEPT !.decoded = r.set.decoded]
        /\ \A s \in SetInstances : \A k \in DOMAIN set'[s].Metadata :
              ~(Len(k) >= 2 /\ k[1] = "_" /\ k[2] = "_")
        /\ last'.op = "ObservationSet.MarshalJSON" =>
              /\ KeyLink \in DOMAIN last'.wire.obj => set'[last'.set].linked
              /\ KeyData \in DOMAIN last'.wire.obj => set'[last'.set].linked
              /\ KeyObsCount \in DOMAIN last'.wire.obj => set'[last'.set].count # 0
      ]_vars

\* C20 witness: an input with a "__" key and a metadata key is decoded.
C20_Witness ==
    /\ last.op = "ObservationSet.UnmarshalJSON" /\ last.res = "nil"
    /\ \E k \in DOMAIN last.wire.obj : Len(k) >= 2 /\ k[1] = "_" /\ k[2] = "_"
    /\ DOMAIN set[last.set].Metadata # {}

\* C21: CreateTables on a database that has all the tables returns nil and
\* leaves the tables and their rows as they were, and DropTables on a
\* database that has none of the tables returns nil and leaves it without
\* tables (a call the database fails for a reason of its own apart).
C21_SchemaIdempotent ==
    /\ (/\ last.op = "CreateTables"
        /\ last.pre.exists = { CreateOrder[i] : i \in 1..Len(CreateOrder) }
        /\ last.res # "store")
         => last.res = "nil" /\ db = last.pre
    /\ (/\ last.op = "DropTables"
        /\ last.pre.exists = {}
        /\ last.res # "store")
         => last.res = "nil" /\ db.exists = {}

\* C22: every row of observations has an association row with its set id
\* and its condition id, whatever calls were made and wherever they failed.
C22_ObservationsLinked ==
    \A o \in db.observations :
      \E i \in 1..Len(db.observation_set_to_conditions) :
        /\ db.observation_set_to_conditions[i].observation_set_id = o.set_id
        /\ db.observation_set_to_conditions[i].condition_id = o.condition_id

\* C23: the i-th observation ReadObservations returns is what decoding the
\* i-th line alone into a new Observation gives (so its value is 0 when the
\* line has no sixth element, whatever the lines before it held), and
\* UnmarshalObservations(MarshalObservations(L)) returns observations with
\* the values of those of L.
C23_LinesIndependent ==
    /\ (/\ last.op \in { "UnmarshalObservations",
                         "UnmarshalObservations(MarshalObservations)" }
        /\ last.res = "nil")
         => /\ Len(last.out) = Len(last.lines)
            /\ \A i \in 1..Len(last.lines) :
                 last.out[i] = ObsUnmarshalJSON(ZeroObservation, last.lines[i]).obs
    /\ last.op = "UnmarshalObservations(MarshalObservations)"
         => /\ last.res = "nil"
            /\ Len(last.out) = Len(last.obsdat)
            /\ \A i \in 1..Len(last.obsdat) : last.out[i].Value = last.obsdat[i].Value

\* C24: an InsertInSet that returns the undeclared-condition error has
\* written no row of observations, observation_sets or
\* observation_set_to_conditions and has left the id of the set as it was;
\* it has written at most a row of paths and a row of conditions.
C24_UndeclaredWritesNothing ==
    (last.op = "InsertInSet" /\ last.res = "undeclared")
      => /\ last.writes.observations = 0
         /\ last.writes.observation_sets = 0
         /\ last.writes.links = 0
         /\ set[last.set].ID = last.preID
         /\ last.writes.paths \in {0, 1}
         /\ last.writes.conditions \in {0, 1}

\* C24 witness: the call is made on a set that has no id yet, creates the
\* row of its path and of its condition, and returns the error.
C24_Witness ==
    /\ last.op = "InsertInSet" /\ last.res = "undeclared"
    /\ last.preID = 0
    /\ last.writes.paths = 1 /\ last.writes.conditions = 1

\* C25: every entry name -> id of the cache is a row of conditions with
\* that name and that id; no entry holds the id 0, and none holds an id
\* that a row of another name has.
C25_CacheAgreesWithStore ==
    \A n \in DOMAIN cache :
      /\ cache[n] # 0
      /\ [ id |-> cache[n], key |-> n ] \in db.conditions
      /\ \A row \in db.conditions : row.id = cache[n] => row.key = n

\* C25 witness: FillConditionIDsInSet has returned nil on a cache that
\* holds two names.
C25_Witness ==
    /\ last.op = "FillConditionIDsInSet" /\ last.res = "nil"
    /\ Cardinality(DOMAIN cache) >= 2

\* C26: the membership check of a set instance (conditionDeclared) is built
\* by the first InsertInSet call on the instance, from the ids its
\* conditions hold when that call is made; once built no call changes it:
\* not a later InsertInSet, not resolving the conditions, not an Insert
\* (forced or not) of the set.
C26_DeclaredBuiltOnce ==
    [][ \A s \in SetInstances :
          /\ ~set[s].conditionDeclared.nil
               => set'[s].conditionDeclared = set[s].conditionDeclared
          /\ (set[s].conditionDeclared.nil /\ ~set'[s].conditionDeclared.nil)
               => /\ last'.op = "InsertInSet" /\ last'.set = s
                  /\ set'[s].conditionDeclared.ids =
                       { set[s].Conditions[i].ID : i \in 1..Len(set[s].Conditions) }
          /\ (last'.op = "InsertInSet" /\ last'.set = s)
               => ~set'[s].conditionDeclared.nil
      ]_vars

\* C26 witness: a later InsertInSet call has been made on an instance
\* whose check was built while its condition had no id and whose condition
\* was resolved afterwards; the check still holds the id 0 only.
C26_Witness ==
    /\ last.op = "InsertInSet"
    /\ ~set[last.set].conditionDeclared.nil
    /\ set[last.set].conditionDeclared.ids = {0}
    /\ Len(set[last.set].Conditions) = 1
    /\ set[last.set].Conditions[1].ID # 0

\* C27: IsAuthorized returns true only if the Authorization header is
\* "Bearer" and a token, the token names an HMAC method and carries the
\* signature of the configured key, and its claims hold true for the
\* permission asked; when it returns false it has written the status 400
\* or 403.
C27_Authorized ==
    last.op = "IsAuthorized" =>
        /\ last.res =>
             LET f == Fields(last.hdr)
             IN  /\ Len(f) >= 2
                 /\ f[1] = << "Bearer" >>
                 /\ LET seg == Split(f[2], ".")
                    IN  /\ Len(seg) = 3
                        /\ \E m \in SigningMethodHMAC : seg[1] = << m >>
                        /\ seg[3] = << SignatureUnder[last.azr.Key] >>
                        /\ \E c \in DOMAIN ClaimsOf :
                             /\ seg[2] = << c >>
                             /\ last.permission \in DOMAIN ClaimsOf[c].entries
                             /\ ClaimsOf[c].entries[last.permission] = "true"
        /\ ~last.res => last.status \in {400, 403}

\* C27 witness: a request is authorized under a configured key, and its
\* header has white space around the token.
C27_Witness ==
    /\ last.op = "IsAuthorized" /\ last.res
    /\ last.azr.Key = "k2"
    /\ last.permission = "write"
    /\ last.hdr[1] = " "

====
